---- MODULE Spec2Model ----
(***************************************************************************)
(* A model of the vg vector-geometry commands of                           *)
(* src/p5/02_M/M_1_4_01/sketch.js (lines 148-1140): shapes are Paths       *)
(* (command sequences), Groups (trees of shapes), point arrays and arrays  *)
(* of shapes; every vg operation is one action of a caller that passes a   *)
(* shape in and receives a result (a value, or a thrown error).            *)
(*                                                                         *)
(* Objects carry a reference `ref`: the objects the caller built have      *)
(* distinct refs > 0, an object constructed during a call has ref 0.       *)
(* Two objects are the same JavaScript object iff their refs are equal     *)
(* and > 0.                                                                *)
(***************************************************************************)
EXTENDS Integers, Sequences, FiniteSets, TLC

\* entropy: the state of the engine's Math.random, as the number of draws made
VARIABLES pc, call, shape, result, entropy

vars == <<pc, call, shape, result, entropy>>

(***************************************************************************)
(* Bounds of the model.                                                    *)
(***************************************************************************)
\* longest command sequence of an input Path
MaxCmds == 3
\* most nodes (Groups and Paths) of an input Group tree, of any nesting depth
MaxNodes == 5
\* most points of an input point array
MaxPts == 3
\* largest grid distance passed to snap
MaxDist == 3
\* most duplicates asked of copy
MaxCopies == 3
\* most points asked of scatterPoints
MaxAmount == 2
\* most draws from Math.random
MaxDraws == 2
\* largest parameter passed to pointOnPath, in units of path length
MaxT == 9

(***************************************************************************)
(* Values: undefined, null, command tags (util/bezier).                    *)
(***************************************************************************)
Undefined == [kind |-> "undefined"]
Null == [kind |-> "null"]

MOVETO == "M"
LINETO == "L"
QUADTO == "Q"
CURVETO == "C"
CLOSE == "z"
\* a tag outside the bezier vocabulary (malformed shape data)
ARCTO == "A"

\* `v.f !== undefined` for an object v
Has(v, f) == f \in DOMAIN v

IsPath(s) == s.kind = "path"
IsGroup(s) == s.kind = "group"
IsArray(s) == s.kind = "array"
IsPoint(s) == s.kind = "point"
\* `!shape`
Falsy(s) == s.kind \in {"undefined", "null"}

\* Array.isArray(shape) && shape.length > 0 && shape[0].x !== undefined && shape[0].y !== undefined
IsPointArray(s) ==
    /\ IsArray(s)
    /\ Len(s.items) > 0
    /\ Has(s.items[1], "x")
    /\ Has(s.items[1], "y")

NewPoint(x, y) == [kind |-> "point", ref |-> 0, x |-> x, y |-> y]
NewPath(commands) == [kind |-> "path", ref |-> 0, commands |-> commands]
NewGroup(shapes) == [kind |-> "group", ref |-> 0, shapes |-> shapes]
NewArray(items) == [kind |-> "array", ref |-> 0, items |-> items]
NewRect(x, y, w, h) == [x |-> x, y |-> y, width |-> w, height |-> h]

\* Path.moveTo / lineTo / quadTo / curveTo / close append a new command object
MoveTo(x, y) == [type |-> MOVETO, ref |-> 0, x |-> x, y |-> y]
LineTo(x, y) == [type |-> LINETO, ref |-> 0, x |-> x, y |-> y]
QuadTo(x1, y1, x, y) ==
    [type |-> QUADTO, ref |-> 0, x1 |-> x1, y1 |-> y1, x |-> x, y |-> y]
CurveTo(x1, y1, x2, y2, x, y) ==
    [type |-> CURVETO, ref |-> 0, x1 |-> x1, y1 |-> y1, x2 |-> x2, y2 |-> y2,
     x |-> x, y |-> y]
ClosePath == [type |-> CLOSE, ref |-> 0]
ArcTo(x, y) == [type |-> ARCTO, ref |-> 0, x |-> x, y |-> y]

\* outcomes of a call
Return(v) == [st |-> "return", val |-> v]
Throw(e) == [st |-> "throw", err |-> e]
Returned(r) == r.st = "return"
\* a property access on undefined or null
TypeError == Throw("TypeError")

(***************************************************************************)
(* Sequence helpers.                                                       *)
(***************************************************************************)
SeqsUpTo(S, n) == UNION {[1..k -> S] : k \in 0..n}

RECURSIVE Flat(_)
\* concatenation of a sequence of sequences
Flat(ss) == IF ss = <<>> THEN <<>> ELSE Head(ss) \o Flat(Tail(ss))

Map(f(_), s) == [i \in 1..Len(s) |-> f(s[i])]

(***************************************************************************)
(* The shapes a caller passes in.  Raw shapes are built with the           *)
(* constructors above; Label gives every object of a shape its own ref,    *)
(* in depth-first order, as separately constructed JavaScript objects have.*)
(***************************************************************************)
CommandPool ==
    { MoveTo(0, 0), LineTo(1, 1), LineTo(3, 2), QuadTo(1, 0, 2, 2),
      CurveTo(0, 1, 3, 0, 1, 2), ClosePath, ArcTo(2, 2) }

RawPaths == {NewPath(c) : c \in SeqsUpTo(CommandPool, MaxCmds)}

\* the Paths used as leaves of input Groups
LeafPaths ==
    { NewPath(<<MoveTo(0, 0), LineTo(1, 1), ClosePath>>),
      NewPath(<<MoveTo(2, 1), CurveTo(0, 1, 3, 0, 3, 2)>>) }

RECURSIVE TreesOfSize(_), ForestsOfSize(_)
\* the sequences of Group trees with m nodes in all
ForestsOfSize(m) ==
    IF m = 0 THEN {<<>>}
    ELSE UNION { {<<t>> \o f : t \in TreesOfSize(k), f \in ForestsOfSize(m - k)}
                 : k \in 1..m }
\* the Paths and Groups with n nodes
TreesOfSize(n) ==
    (IF n = 1 THEN LeafPaths ELSE {})
        \cup {NewGroup(f) : f \in ForestsOfSize(n - 1)}

RawTrees == UNION {TreesOfSize(n) : n \in 1..MaxNodes}
RawGroups == {t \in RawTrees : IsGroup(t)}
RawShapeArrays ==
    UNION {{NewArray(f) : f \in ForestsOfSize(m)} : m \in 0..(MaxNodes - 1)}

PointPool == {NewPoint(0, 0), NewPoint(1, 1), NewPoint(2, 1), NewPoint(3, 2)}
RawPointArrays == {NewArray(p) : p \in SeqsUpTo(PointPool, MaxPts)}

RECURSIVE Label(_, _), LabelSeq(_, _)
\* s with refs n, n+1, ... given to its objects; [v |-> labelled, n |-> next free ref]
Label(s, n) ==
    IF Has(s, "kind") /\ s.kind = "path" THEN
        [v |-> [s EXCEPT !.ref = n,
                         !.commands = [i \in 1..Len(s.commands) |->
                                          [s.commands[i] EXCEPT !.ref = n + i]]],
         n |-> n + Len(s.commands) + 1]
    ELSE IF Has(s, "kind") /\ s.kind = "group" THEN
        LET r == LabelSeq(s.shapes, n + 1)
        IN  [v |-> [s EXCEPT !.ref = n, !.shapes = r.v], n |-> r.n]
    ELSE IF Has(s, "kind") /\ s.kind = "array" THEN
        LET r == LabelSeq(s.items, n + 1)
        IN  [v |-> [s EXCEPT !.ref = n, !.items = r.v], n |-> r.n]
    ELSE [v |-> [s EXCEPT !.ref = n], n |-> n + 1]
LabelSeq(q, n) ==
    IF q = <<>> THEN [v |-> <<>>, n |-> n]
    ELSE LET h == Label(Head(q), n)
             t == LabelSeq(Tail(q), h.n)
         IN  [v |-> <<h.v>> \o t.v, n |-> t.n]

Built(S) == {Label(s, 1).v : s \in S}

Paths == Built(RawPaths)
Groups == Built(RawGroups)
Trees == Built(RawTrees)
ShapeArrays == Built(RawShapeArrays)
PointArrays == Built(RawPointArrays)
\* the four variants of the Shape union
Shapes == Paths \cup Groups \cup ShapeArrays \cup PointArrays

\* every ref > 0 of an object of s (s itself included)
RECURSIVE Refs(_)
Refs(s) ==
    IF ~Has(s, "kind") THEN {s.ref} \ {0}
    ELSE LET kids == IF s.kind = "path" THEN s.commands
                     ELSE IF s.kind = "group" THEN s.shapes
                     ELSE IF s.kind = "array" THEN s.items
                     ELSE <<>>
         IN  (IF Has(s, "ref") THEN {s.ref} \ {0} ELSE {})
                 \cup UNION {Refs(kids[i]) : i \in 1..Len(kids)}

(***************************************************************************)
(* Collaborators of the commands module (objects/rect, util/math).         *)
(***************************************************************************)
\* Rect.contains(x, y): the boundary belongs to the rect
Contains(r, x, y) ==
    /\ x >= r.x
    /\ x <= r.x + r.width
    /\ y >= r.y
    /\ y <= r.y + r.height

\* Math.round(v / d) for d > 0: the nearest integer, a half rounding up
Round(v, d) == (2 * v + d) \div (2 * d)

\* math.snap(v, distance, strength), strength 0 or 1
MathSnap(v, distance, strength) ==
    v * (1 - strength) + strength * Round(v, distance) * distance

(***************************************************************************)
(* _cloneCommand: a new object with the fields the tag calls for.          *)
(***************************************************************************)
CloneFields(cmd) ==
    LET t == IF Has(cmd, "type") THEN cmd.type ELSE "undefined"
    IN  {"type"}
            \cup (IF t # CLOSE THEN {"x", "y"} ELSE {})
            \cup (IF t = QUADTO THEN {"x1", "y1"}
                  ELSE IF t = CURVETO THEN {"x1", "y1", "x2", "y2"}
                  ELSE {})

\* a broken clone: the command object itself
CloneCommandAlias(cmd) == cmd

CloneCommand(cmd) ==
    [f \in {"ref"} \cup (CloneFields(cmd) \cap DOMAIN cmd) |->
        IF f = "ref" THEN 0 ELSE cmd[f]]

(***************************************************************************)
(* Writes to existing objects.  An operation yields its outcome `out`     *)
(* and the writes it made to objects that existed before the call:        *)
(* `retag`, the refs of the commands whose type was set to MOVETO, and    *)
(* `sorted`, the arrays sorted in place, each as [ref, items].            *)
(***************************************************************************)
Pure(out) == [out |-> out, retag |-> {}, sorted |-> <<>>]

RECURSIVE Retagged(_, _)
\* shape s after the commands with a ref in w had their type set to MOVETO
Retagged(s, w) ==
    IF ~Has(s, "kind") THEN s
    ELSE IF s.kind = "path" THEN
        [s EXCEPT !.commands = [i \in 1..Len(s.commands) |->
            IF s.commands[i].ref \in w
            THEN [s.commands[i] EXCEPT !.type = MOVETO]
            ELSE s.commands[i]]]
    ELSE IF s.kind = "group" THEN
        [s EXCEPT !.shapes = [i \in 1..Len(s.shapes) |-> Retagged(s.shapes[i], w)]]
    ELSE IF s.kind = "array" THEN
        [s EXCEPT !.items = [i \in 1..Len(s.items) |-> Retagged(s.items[i], w)]]
    ELSE s

\* array s after the in-place sorts w: a sort of s itself replaces its items
Resorted(s, w) ==
    IF w # <<>> /\ Has(s, "ref") /\ w[1].ref = s.ref /\ s.ref # 0
    THEN [s EXCEPT !.items = w[1].items]
    ELSE s

(***************************************************************************)
(* vg.deletePoints                                                         *)
(***************************************************************************)
\* the test without its invert half
KeepPointNoInvert(o, bounding, invert) == ~Contains(bounding, o.x, o.y)

\* the test of lines 812-814 and 837-838 on an object with coordinates
KeepPoint(o, bounding, invert) ==
    \/ invert /\ Contains(bounding, o.x, o.y)
    \/ ~invert /\ ~Contains(bounding, o.x, o.y)

\* the loop without the retagging of lines 815-817
DeletePathLoopNoRetag(cmds, i, newCurve, commands, retag, bounding, invert) ==
    [commands |->
        SelectSeq([k \in 1..Len(cmds) |-> CloneCommand(cmds[k])],
                  LAMBDA cmd : ~Has(cmd, "x") \/ KeepPoint(cmd, bounding, invert)),
     retag |-> {}]

RECURSIVE DeletePathLoop(_, _, _, _, _, _, _)
\* the loop of lines 810-825 from index i on; [commands, retag]
DeletePathLoop(cmds, i, newCurve, commands, retag, bounding, invert) ==
    IF i > Len(cmds) THEN [commands |-> commands, retag |-> retag]
    ELSE
        LET cmd == CloneCommand(cmds[i])
            keep == ~Has(cmd, "x") \/ KeepPoint(cmd, bounding, invert)
            set == newCurve /\ cmd.type # MOVETO
            cmd2 == IF set THEN [cmd EXCEPT !.type = MOVETO] ELSE cmd
        IN  IF ~keep
            THEN DeletePathLoop(cmds, i + 1, newCurve, commands, retag,
                                bounding, invert)
            ELSE DeletePathLoop(cmds, i + 1,
                    IF cmd2.type = MOVETO THEN FALSE
                    ELSE IF cmd2.type = CLOSE THEN TRUE
                    ELSE newCurve,
                    Append(commands, cmd2),
                    IF set /\ cmd.ref # 0 THEN retag \cup {cmd.ref} ELSE retag,
                    bounding, invert)

RECURSIVE DeletePointsRec(_, _, _)
\* vg.deletePoints on a defined shape; [val, retag]
DeletePointsRec(s, bounding, invert) ==
    IF IsPath(s) THEN
        LET r == DeletePathLoop(s.commands, 1, TRUE, <<>>, {}, bounding, invert)
        IN  [val |-> NewPath(r.commands), retag |-> r.retag]
    ELSE IF IsGroup(s) THEN
        LET d == [i \in 1..Len(s.shapes) |->
                    DeletePointsRec(s.shapes[i], bounding, invert)]
        IN  [val |-> NewGroup([i \in 1..Len(d) |-> d[i].val]),
             retag |-> UNION {d[i].retag : i \in 1..Len(d)}]
    ELSE IF IsPointArray(s) THEN
        LET kept == SelectSeq(s.items, LAMBDA pt : KeepPoint(pt, bounding, invert))
        IN  [val |-> NewArray([i \in 1..Len(kept) |-> CloneCommand(kept[i])]),
             retag |-> {}]
    ELSE
        LET d == [i \in 1..Len(s.items) |->
                    DeletePointsRec(s.items[i], bounding, invert)]
        IN  [val |-> NewArray([i \in 1..Len(d) |-> d[i].val]),
             retag |-> UNION {d[i].retag : i \in 1..Len(d)}]

\* vg.deletePoints(shape, bounding, invert)
DeletePoints(s, bounding, invert) ==
    IF Falsy(s) THEN Pure(TypeError)
    ELSE LET r == DeletePointsRec(s, bounding, invert)
         IN  [out |-> Return(r.val), retag |-> r.retag, sorted |-> <<>>]

(***************************************************************************)
(* vg.deletePaths                                                          *)
(***************************************************************************)
\* lines 864-871: some command of the Path has coordinates inside bounding
Selected(s, bounding) ==
    \E j \in 1..Len(s.commands) :
        /\ Has(s.commands[j], "x")
        /\ Contains(bounding, s.commands[j].x, s.commands[j].y)

\* the test with invert ignored
KeepPathNoInvert(s, bounding, invert) == ~Selected(s, bounding)

\* line 872
KeepPath(s, bounding, invert) ==
    ~((invert /\ ~Selected(s, bounding)) \/ (Selected(s, bounding) /\ ~invert))

RECURSIVE DeletePathsRec(_, _, _)
\* vg.deletePaths on a defined shape; the value returned
DeletePathsRec(s, bounding, invert) ==
    IF IsPath(s) THEN Null
    ELSE IF IsGroup(s) THEN
        NewGroup(DeletePathsRec(NewArray(s.shapes), bounding, invert).items)
    ELSE IF IsArray(s) THEN
        LET each == [i \in 1..Len(s.items) |->
                LET c == s.items[i]
                IN  IF Has(c, "kind") /\ IsPath(c) THEN
                        IF KeepPath(c, bounding, invert) THEN <<c>> ELSE <<>>
                    ELSE IF Has(c, "kind") /\ IsGroup(c) THEN
                        \* a Group has no length: subShapes.length !== 0 holds
                        <<DeletePathsRec(c, bounding, invert)>>
                    ELSE <<>>]
        IN  NewArray(Flat(each))
    ELSE Undefined

\* vg.deletePaths(shape, bounding, invert)
DeletePaths(s, bounding, invert) ==
    IF Falsy(s) THEN Pure(TypeError)
    ELSE Pure(Return(DeletePathsRec(s, bounding, invert)))

\* vg['delete'](shape, bounding, scope, invert)
VgDelete(s, bounding, scope, invert) ==
    IF s = Null \/ bounding = Null THEN Pure(Return(Null))
    ELSE IF scope = "points" THEN DeletePoints(s, bounding, invert)
    ELSE IF scope = "paths" THEN DeletePaths(s, bounding, invert)
    ELSE Pure(Throw("Invalid scope."))

(***************************************************************************)
(* Outcomes of the calls made in a loop: the first throw aborts the loop.  *)
(***************************************************************************)
AllReturned(rs) == \A i \in 1..Len(rs) : Returned(rs[i])
FirstThrow(rs) ==
    rs[CHOOSE i \in 1..Len(rs) :
        /\ ~Returned(rs[i])
        /\ \A j \in 1..(i - 1) : Returned(rs[j])]
Vals(rs) == [i \in 1..Len(rs) |-> rs[i].val]

(***************************************************************************)
(* vg.snap                                                                 *)
(***************************************************************************)
\* a snap that forgets to take the center off again
SnapCoordCentered(v, c, distance, strength) == MathSnap(v + c, distance, strength)

\* math.snap(v + center, distance, strength) - center
SnapCoord(v, c, distance, strength) == MathSnap(v + c, distance, strength) - c

\* lines 756-775: the command appended for cmd, or the throw
SnapCommand(cmd, distance, strength, center) ==
    IF cmd.type \in {MOVETO, LINETO, CURVETO} THEN
        LET x == SnapCoord(cmd.x, center.x, distance, strength)
            y == SnapCoord(cmd.y, center.y, distance, strength)
        IN  IF cmd.type = MOVETO THEN Return(MoveTo(x, y))
            ELSE IF cmd.type = LINETO THEN Return(LineTo(x, y))
            ELSE Return(CurveTo(SnapCoord(cmd.x1, center.x, distance, strength),
                                SnapCoord(cmd.y1, center.y, distance, strength),
                                SnapCoord(cmd.x2, center.x, distance, strength),
                                SnapCoord(cmd.y2, center.y, distance, strength),
                                x, y))
    ELSE IF cmd.type = CLOSE THEN Return(ClosePath)
    ELSE Throw("Invalid path command")

\* lines 788-793
SnapPoint(point, distance, strength, center) ==
    NewPoint(SnapCoord(point.x, center.x, distance, strength),
             SnapCoord(point.y, center.y, distance, strength))

RECURSIVE VgSnap(_, _, _, _)
\* vg.snap(shape, distance, strength, center); the outcome
VgSnap(s, distance, strength, center0) ==
    IF Falsy(s) THEN Return(Undefined)
    ELSE
        LET center == IF Falsy(center0) THEN NewPoint(0, 0) ELSE center0
        IN  IF IsPath(s) THEN
                LET rs == [i \in 1..Len(s.commands) |->
                            SnapCommand(s.commands[i], distance, strength, center)]
                IN  IF AllReturned(rs) THEN Return(NewPath(Vals(rs)))
                    ELSE FirstThrow(rs)
            ELSE IF IsGroup(s) THEN
                LET rs == [i \in 1..Len(s.shapes) |->
                            VgSnap(s.shapes[i], distance, strength, center)]
                IN  IF AllReturned(rs) THEN Return(NewGroup(Vals(rs)))
                    ELSE FirstThrow(rs)
            ELSE IF IsPointArray(s) THEN
                Return(NewArray([i \in 1..Len(s.items) |->
                            SnapPoint(s.items[i], distance, strength, center)]))
            ELSE
                LET rs == [i \in 1..Len(s.items) |->
                            VgSnap(s.items[i], distance, strength, center)]
                IN  IF AllReturned(rs) THEN Return(NewArray(Vals(rs)))
                    ELSE FirstThrow(rs)

(***************************************************************************)
(* vg.mirror                                                               *)
(***************************************************************************)
\* the angles whose reflection keeps integer coordinates
Angles == {0, 45, 90, 135}

\* fn of lines 476-484: (x, y) reflected across the line through origin at
\* `angle` degrees
MirrorFn(x, y, angle, origin) ==
    IF angle = 0 THEN NewPoint(x, 2 * origin.y - y)
    ELSE IF angle = 90 THEN NewPoint(2 * origin.x - x, y)
    ELSE IF angle = 45 THEN NewPoint(origin.x + (y - origin.y), origin.y + (x - origin.x))
    ELSE NewPoint(origin.x - (y - origin.y), origin.y - (x - origin.x))

\* lines 425-441: the command appended for cmd, or the throw
MirrorCommand(cmd, angle, origin) ==
    IF cmd.type = MOVETO THEN
        LET pt == MirrorFn(cmd.x, cmd.y, angle, origin) IN Return(MoveTo(pt.x, pt.y))
    ELSE IF cmd.type = LINETO THEN
        LET pt == MirrorFn(cmd.x, cmd.y, angle, origin) IN Return(LineTo(pt.x, pt.y))
    ELSE IF cmd.type = CURVETO THEN
        LET pt == MirrorFn(cmd.x, cmd.y, angle, origin)
            ctrl1 == MirrorFn(cmd.x1, cmd.y1, angle, origin)
            ctrl2 == MirrorFn(cmd.x2, cmd.y2, angle, origin)
        IN  Return(CurveTo(ctrl1.x, ctrl1.y, ctrl2.x, ctrl2.y, pt.x, pt.y))
    ELSE IF cmd.type = CLOSE THEN Return(ClosePath)
    ELSE Throw("Unknown command")

\* vg._mirrorPath; an array that is no point array has no commands
MirrorPath(path, angle, origin) ==
    IF ~IsPath(path) THEN TypeError
    ELSE LET rs == [i \in 1..Len(path.commands) |->
                        MirrorCommand(path.commands[i], angle, origin)]
         IN  IF AllReturned(rs) THEN Return(NewPath(Vals(rs))) ELSE FirstThrow(rs)

RECURSIVE MirrorRec(_, _, _)
\* vg._mirror
MirrorRec(s, angle, origin) ==
    IF IsPointArray(s) THEN
        Return(NewArray([i \in 1..Len(s.items) |->
                    MirrorFn(s.items[i].x, s.items[i].y, angle, origin)]))
    ELSE IF IsGroup(s) THEN
        LET rs == [i \in 1..Len(s.shapes) |-> MirrorRec(s.shapes[i], angle, origin)]
        IN  IF AllReturned(rs) THEN Return(NewGroup(Vals(rs))) ELSE FirstThrow(rs)
    ELSE MirrorPath(s, angle, origin)

\* lines 488-495: the value returned for the mirrored newShape
MirrorKeep(s, newShape, keepOriginal) ==
    IF keepOriginal THEN
        IF IsPointArray(s) THEN NewArray(s.items \o newShape.items)
        ELSE NewGroup(<<s, newShape>>)
    ELSE newShape

\* vg.mirror(shape, angle, origin, keepOriginal); the outcome
VgMirror(s, angle, origin0, keepOriginal) ==
    IF Falsy(s) THEN Return(Undefined)
    ELSE
        LET origin == IF Falsy(origin0) THEN NewPoint(0, 0) ELSE origin0
            r == MirrorRec(s, angle, origin)
        IN  IF Returned(r) THEN Return(MirrorKeep(s, r.val, keepOriginal)) ELSE r

(***************************************************************************)
(* Collaborators: the seeded generator (util/random) and the affine        *)
(* Transform (objects/transform).                                          *)
(***************************************************************************)
\* modulus, multiplier and increment of the generator
RandModulus == 233280
RandMultiplier == 9301
RandIncrement == 49297
\* half the modulus: rand(0, 1) - 0.5 is (seed - RandHalf) / RandModulus
RandHalf == 116640

\* the generator's next state: (seed * 9301 + 49297) % 233280, the product
\* taken in two parts to stay within 32-bit integers
NextSeed(seed) ==
    ((((seed * (RandMultiplier \div 100)) % RandModulus) * 100)
        + seed * (RandMultiplier % 100) + RandIncrement) % RandModulus

\* (rand(0, 1) - 0.5) * off * 2 for the state the draw leaves, off a multiple
\* of RandHalf
Jitter(seed, off) == (seed - RandHalf) * (off \div RandHalf)

\* Math.random() in the state e of the engine's generator: a value that depends
\* on that state only.  The draw stands for the seed it is used as; the model
\* takes it from the integers, as its generator works on integer seeds.
MathRandom(e) == e

\* a broken default: the seed passed is ignored
SeedAlwaysRandom(seed, e) == [seed |-> MathRandom(e), entropy |-> e + 1]

\* `seed = seed !== undefined ? seed : Math.random()`, the seed argument given
\* as <<n>> or omitted as <<>>; [seed, entropy], the seed used and the state
\* of Math.random afterwards
SeedOrRandom(seed, e) ==
    IF seed # <<>> THEN [seed |-> seed[1], entropy |-> e]
    ELSE [seed |-> MathRandom(e), entropy |-> e + 1]

\* a Transform is the matrix <<a, b, c, d, tx, ty>>:
\* (x, y) |-> (a x + c y + tx, b x + d y + ty)
Identity == <<1, 0, 0, 1, 0, 0>>
\* t.prepend(m): m is applied to a point first, then t
Prepend(t, m) ==
    << t[1] * m[1] + t[3] * m[2], t[2] * m[1] + t[4] * m[2],
       t[1] * m[3] + t[3] * m[4], t[2] * m[3] + t[4] * m[4],
       t[1] * m[5] + t[3] * m[6] + t[5], t[2] * m[5] + t[4] * m[6] + t[6] >>
TTranslate(t, tx, ty) == Prepend(t, <<1, 0, 0, 1, tx, ty>>)
TScale(t, sx, sy) == Prepend(t, <<sx, 0, 0, sy, 0, 0>>)
\* cosine and sine of a multiple of 90 degrees
Cos90(angle) == CASE angle % 360 = 0 -> 1 [] angle % 360 = 180 -> -1 [] OTHER -> 0
Sin90(angle) == CASE angle % 360 = 90 -> 1 [] angle % 360 = 270 -> -1 [] OTHER -> 0
TRotate(t, angle) ==
    Prepend(t, <<Cos90(angle), Sin90(angle), -Sin90(angle), Cos90(angle), 0, 0>>)
\* tangent of 0 or 45 degrees
Tan45(angle) == IF angle = 45 THEN 1 ELSE 0
TSkew(t, kx, ky) == Prepend(t, <<1, Tan45(ky), Tan45(kx), 1, 0, 0>>)

TX(t, x, y) == t[1] * x + t[3] * y + t[5]
TY(t, x, y) == t[2] * x + t[4] * y + t[6]

\* Transform.transformPath on one command: a new command, the CLOSE command
\* itself, or a throw
TransformCommand(t, cmd) ==
    IF cmd.type = MOVETO THEN Return(MoveTo(TX(t, cmd.x, cmd.y), TY(t, cmd.x, cmd.y)))
    ELSE IF cmd.type = LINETO THEN
        Return(LineTo(TX(t, cmd.x, cmd.y), TY(t, cmd.x, cmd.y)))
    ELSE IF cmd.type = QUADTO THEN
        Return(QuadTo(TX(t, cmd.x1, cmd.y1), TY(t, cmd.x1, cmd.y1),
                      TX(t, cmd.x, cmd.y), TY(t, cmd.x, cmd.y)))
    ELSE IF cmd.type = CURVETO THEN
        Return(CurveTo(TX(t, cmd.x1, cmd.y1), TY(t, cmd.x1, cmd.y1),
                       TX(t, cmd.x2, cmd.y2), TY(t, cmd.x2, cmd.y2),
                       TX(t, cmd.x, cmd.y), TY(t, cmd.x, cmd.y)))
    ELSE IF cmd.type = CLOSE THEN Return(cmd)
    ELSE Throw("Unknown command type")

RECURSIVE TransformShape(_, _)
\* Transform.transformShape(shape) on a defined shape; the outcome
TransformShape(t, s) ==
    IF IsGroup(s) THEN
        LET rs == [i \in 1..Len(s.shapes) |-> TransformShape(t, s.shapes[i])]
        IN  IF AllReturned(rs) THEN Return(NewGroup(Vals(rs))) ELSE FirstThrow(rs)
    ELSE IF IsPath(s) THEN
        LET rs == [i \in 1..Len(s.commands) |-> TransformCommand(t, s.commands[i])]
        IN  IF AllReturned(rs) THEN Return(NewPath(Vals(rs))) ELSE FirstThrow(rs)
    ELSE IF IsPointArray(s) THEN
        Return(NewArray([i \in 1..Len(s.items) |->
            NewPoint(TX(t, s.items[i].x, s.items[i].y),
                     TY(t, s.items[i].x, s.items[i].y))]))
    ELSE
        LET rs == [i \in 1..Len(s.items) |-> TransformShape(t, s.items[i])]
        IN  IF AllReturned(rs) THEN Return(NewArray(Vals(rs))) ELSE FirstThrow(rs)

\* Path.contours(): the runs of commands that start at each MOVETO
RECURSIVE ContoursLoop(_, _, _, _)
ContoursLoop(cmds, i, current, contours) ==
    IF i > Len(cmds)
    THEN IF current # <<>> THEN Append(contours, current) ELSE contours
    ELSE IF cmds[i].type = MOVETO
    THEN ContoursLoop(cmds, i + 1, <<cmds[i]>>,
                      IF current # <<>> THEN Append(contours, current) ELSE contours)
    ELSE ContoursLoop(cmds, i + 1, Append(current, cmds[i]), contours)
Contours(path) == ContoursLoop(path.commands, 1, <<>>, <<>>)

(***************************************************************************)
(* vg.wigglePoints, vg.wiggleContours, vg.wigglePaths.  The recursive      *)
(* helpers thread the generator: they yield [out, seed], the outcome and   *)
(* the generator's state after the draws made.                             *)
(***************************************************************************)
\* lines 521-532: the commands appended for cmd after the draws dx, dy
WiggleCommand(cmd, dx, dy) ==
    IF cmd.type = MOVETO THEN <<MoveTo(cmd.x + dx, cmd.y + dy)>>
    ELSE IF cmd.type = LINETO THEN <<LineTo(cmd.x + dx, cmd.y + dy)>>
    ELSE IF cmd.type = CURVETO THEN
        <<CurveTo(cmd.x1, cmd.y1, cmd.x2, cmd.y2, cmd.x + dx, cmd.y + dy)>>
    ELSE IF cmd.type = CLOSE THEN <<ClosePath>>
    ELSE <<>>

RECURSIVE WigglePathLoop(_, _, _, _, _)
\* the loop of lines 520-533 from index i on
WigglePathLoop(cmds, i, commands, offset, seed) ==
    IF i > Len(cmds) THEN [out |-> Return(NewPath(commands)), seed |-> seed]
    ELSE LET s1 == NextSeed(seed)
             s2 == NextSeed(s1)
         IN  WigglePathLoop(cmds, i + 1,
                commands \o WiggleCommand(cmds[i], Jitter(s1, offset.x),
                                          Jitter(s2, offset.y)),
                offset, s2)

RECURSIVE WigglePointLoop(_, _, _, _, _)
\* the loop of lines 545-549 from index i on
WigglePointLoop(pts, i, wPoints, offset, seed) ==
    IF i > Len(pts) THEN [out |-> Return(NewArray(wPoints)), seed |-> seed]
    ELSE LET s1 == NextSeed(seed)
             s2 == NextSeed(s1)
         IN  WigglePointLoop(pts, i + 1,
                Append(wPoints, NewPoint(pts[i].x + Jitter(s1, offset.x),
                                         pts[i].y + Jitter(s2, offset.y))),
                offset, s2)

RECURSIVE WigglePointsRec(_, _, _), WigglePointsEach(_, _, _, _, _)
\* vg._wigglePoints(shape, offset, rand)
WigglePointsRec(s, offset, seed) ==
    IF Falsy(s) THEN [out |-> TypeError, seed |-> seed]
    ELSE IF IsPath(s) THEN WigglePathLoop(s.commands, 1, <<>>, offset, seed)
    ELSE IF IsGroup(s) THEN
        LET r == WigglePointsEach(s.shapes, 1, <<>>, offset, seed)
        IN  IF Returned(r.out)
            THEN [out |-> Return(NewGroup(r.out.val)), seed |-> r.seed] ELSE r
    ELSE IF IsPointArray(s) THEN WigglePointLoop(s.items, 1, <<>>, offset, seed)
    ELSE
        LET r == WigglePointsEach(s.items, 1, <<>>, offset, seed)
        IN  IF Returned(r.out)
            THEN [out |-> Return(NewArray(r.out.val)), seed |-> r.seed] ELSE r
\* the loops of lines 538-540 and 554-556 from index i on
WigglePointsEach(q, i, acc, offset, seed) ==
    IF i > Len(q) THEN [out |-> Return(acc), seed |-> seed]
    ELSE LET r == WigglePointsRec(q[i], offset, seed)
         IN  IF Returned(r.out)
             THEN WigglePointsEach(q, i + 1, Append(acc, r.out.val), offset, r.seed)
             ELSE r

\* vg.wigglePoints(shape, offset, seed); the outcome
VgWigglePoints(s, offset, seed) == WigglePointsRec(s, offset, seed).out

RECURSIVE WiggleContoursLoop(_, _, _, _, _)
\* the loop of lines 578-583 from index i on
WiggleContoursLoop(subPaths, i, commands, offset, seed) ==
    IF i > Len(subPaths) THEN [out |-> Return(NewPath(commands)), seed |-> seed]
    ELSE LET s1 == NextSeed(seed)
             s2 == NextSeed(s1)
             t == TTranslate(Identity, Jitter(s1, offset.x), Jitter(s2, offset.y))
             r == TransformShape(t, NewPath(subPaths[i]))
         IN  IF Returned(r)
             THEN WiggleContoursLoop(subPaths, i + 1, commands \o r.val.commands,
                                     offset, s2)
             ELSE [out |-> r, seed |-> s2]

RECURSIVE WiggleContoursRec(_, _, _), WiggleContoursEach(_, _, _, _, _)
\* vg._wiggleContours(shape, offset, rand)
WiggleContoursRec(s, offset, seed) ==
    IF Falsy(s) THEN [out |-> TypeError, seed |-> seed]
    ELSE IF IsPath(s) THEN WiggleContoursLoop(Contours(s), 1, <<>>, offset, seed)
    ELSE IF IsGroup(s) THEN
        LET r == WiggleContoursEach(s.shapes, 1, <<>>, offset, seed)
        IN  IF Returned(r.out)
            THEN [out |-> Return(NewGroup(r.out.val)), seed |-> r.seed] ELSE r
    ELSE IF IsArray(s) THEN
        LET r == WiggleContoursEach(s.items, 1, <<>>, offset, seed)
        IN  IF Returned(r.out)
            THEN [out |-> Return(NewArray(r.out.val)), seed |-> r.seed] ELSE r
    \* a point has neither commands nor shapes, and no length to give w
    ELSE [out |-> Throw("RangeError"), seed |-> seed]
WiggleContoursEach(q, i, acc, offset, seed) ==
    IF i > Len(q) THEN [out |-> Return(acc), seed |-> seed]
    ELSE LET r == WiggleContoursRec(q[i], offset, seed)
         IN  IF Returned(r.out)
             THEN WiggleContoursEach(q, i + 1, Append(acc, r.out.val), offset, r.seed)
             ELSE r

\* vg.wiggleContours(shape, offset, seed); the outcome
VgWiggleContours(s, offset, seed) == WiggleContoursRec(s, offset, seed).out

RECURSIVE WigglePathsRec(_, _, _), WigglePathsLoop(_, _, _, _, _)
\* vg._wigglePaths(shape, offset, rand)
WigglePathsRec(s, offset, seed) ==
    IF Falsy(s) THEN [out |-> TypeError, seed |-> seed]
    ELSE IF IsPath(s) THEN [out |-> Return(s), seed |-> seed]
    ELSE IF IsGroup(s) THEN
        LET r == WigglePathsLoop(s.shapes, 1, <<>>, offset, seed)
        IN  IF Returned(r.out)
            THEN [out |-> Return(NewGroup(r.out.val)), seed |-> r.seed] ELSE r
    ELSE IF IsArray(s) THEN
        LET r == WigglePathsLoop(s.items, 1, <<>>, offset, seed)
        IN  IF Returned(r.out)
            THEN [out |-> Return(NewArray(r.out.val)), seed |-> r.seed] ELSE r
    ELSE [out |-> Return(Undefined), seed |-> seed]
\* the loop of lines 620-630 from index i on
WigglePathsLoop(q, i, newShapes, offset, seed) ==
    IF i > Len(q) THEN [out |-> Return(newShapes), seed |-> seed]
    ELSE IF IsPath(q[i]) THEN
        LET s1 == NextSeed(seed)
            s2 == NextSeed(s1)
            t == TTranslate(Identity, Jitter(s1, offset.x), Jitter(s2, offset.y))
            r == TransformShape(t, q[i])
        IN  IF Returned(r)
            THEN WigglePathsLoop(q, i + 1, Append(newShapes, r.val), offset, s2)
            ELSE [out |-> r, seed |-> s2]
    ELSE IF IsGroup(q[i]) THEN
        LET r == WigglePathsRec(q[i], offset, seed)
        IN  IF Returned(r.out)
            THEN WigglePathsLoop(q, i + 1, Append(newShapes, r.out.val), offset, r.seed)
            ELSE r
    ELSE WigglePathsLoop(q, i + 1, newShapes, offset, seed)

\* vg.wigglePaths(shape, offset, seed); the outcome
VgWigglePaths(s, offset, seed) == WigglePathsRec(s, offset, seed).out

\* the three calls with the seed argument as passed (<<n>>, or <<>> when
\* omitted), in the state e of Math.random; [out, entropy]
WigglePointsCall(s, offset, seed, e) ==
    LET d == SeedOrRandom(seed, e)
    IN  [out |-> VgWigglePoints(s, offset, d.seed), entropy |-> d.entropy]
WiggleContoursCall(s, offset, seed, e) ==
    LET d == SeedOrRandom(seed, e)
    IN  [out |-> VgWiggleContours(s, offset, d.seed), entropy |-> d.entropy]
WigglePathsCall(s, offset, seed, e) ==
    LET d == SeedOrRandom(seed, e)
    IN  [out |-> VgWigglePaths(s, offset, d.seed), entropy |-> d.entropy]

(***************************************************************************)
(* vg.translate, vg.scale, vg.rotate, vg.skew: the shape's own method or   *)
(* the generic one of objects/transformable, both the same Transform.      *)
(***************************************************************************)
\* a Transform about an origin: translate(origin), m, translate(-origin)
About(origin, m) ==
    TTranslate(Prepend(TTranslate(Identity, origin.x, origin.y), m),
               -origin.x, -origin.y)

\* vg.translate(shape, position); `shape.translate` throws on a missing shape
VgTranslate(s, position) ==
    IF Falsy(s) THEN TypeError
    ELSE TransformShape(TTranslate(Identity, position.x, position.y), s)

\* vg.scale(shape, scale, origin), scale in percent per axis
VgScale(s, scale, origin0) ==
    IF Falsy(s) THEN TypeError
    ELSE LET origin == IF Falsy(origin0) THEN NewPoint(0, 0) ELSE origin0
         IN  TransformShape(
                About(origin, TScale(Identity, scale.x \div 100, scale.y \div 100)), s)

\* vg.rotate(shape, angle, origin)
VgRotate(s, angle, origin0) ==
    IF Falsy(s) THEN TypeError
    ELSE LET origin == IF Falsy(origin0) THEN NewPoint(0, 0) ELSE origin0
         IN  TransformShape(About(origin, TRotate(Identity, angle)), s)

\* vg.skew(shape, skew, origin)
VgSkew(s, skew, origin0) ==
    IF Falsy(s) THEN TypeError
    ELSE LET origin == IF Falsy(origin0) THEN NewPoint(0, 0) ELSE origin0
         IN  TransformShape(About(origin, TSkew(Identity, skew.x, skew.y)), s)

(***************************************************************************)
(* vg.copy                                                                 *)
(***************************************************************************)
RECURSIVE CopyTransform(_, _, _, _, _, _, _, _)
\* the loop of lines 331-340 from index j on
CopyTransform(t, order, j, tx, ty, r, sx, sy) ==
    IF j > Len(order) THEN t
    ELSE CopyTransform(
            IF order[j] = "t" THEN TTranslate(t, tx, ty)
            ELSE IF order[j] = "r" THEN TRotate(t, r)
            ELSE IF order[j] = "s" THEN TScale(t, sx, sy)
            ELSE t,
            order, j + 1, tx, ty, r, sx, sy)

RECURSIVE ReusedTransform(_, _, _, _, _)
\* one Transform kept across the duplicates: that of duplicate i carries the
\* operations of the duplicates before it
ReusedTransform(order, i, translate, rotate, scale) ==
    IF i < 0 THEN Identity
    ELSE CopyTransform(ReusedTransform(order, i - 1, translate, rotate, scale),
                       order, 1, i * translate.x, i * translate.y, i * rotate,
                       1 + i * scale.x, 1 + i * scale.y)

RECURSIVE CopyLoopReused(_, _, _, _, _, _, _, _, _, _, _, _)
\* the loop with `new Transform()` hoisted out of it
CopyLoopReused(s, copies, order, translate, rotate, scale, i, shapes, tx, ty, r, sxy) ==
    IF i >= copies THEN Return(NewArray(shapes))
    ELSE IF Falsy(s) THEN TypeError
    ELSE
        LET t == ReusedTransform(order, i, translate, rotate, scale)
            c == TransformShape(t, s)
        IN  IF ~Returned(c) THEN c
            ELSE CopyLoopReused(s, copies, order, translate, rotate, scale, i + 1,
                    IF IsPointArray(s) THEN shapes \o c.val.items
                    ELSE Append(shapes, c.val),
                    tx + translate.x, ty + translate.y, r + rotate,
                    <<sxy[1] + scale.x, sxy[2] + scale.y>>)

RECURSIVE CopyLoop(_, _, _, _, _, _, _, _, _, _, _, _)
\* the loop of lines 329-352 from index i on
CopyLoop(s, copies, order, translate, rotate, scale, i, shapes, tx, ty, r, sxy) ==
    IF i >= copies THEN Return(NewArray(shapes))
    ELSE IF Falsy(s) THEN TypeError
    ELSE
        LET t == CopyTransform(Identity, order, 1, tx, ty, r, sxy[1], sxy[2])
            c == TransformShape(t, s)
        IN  IF ~Returned(c) THEN c
            ELSE CopyLoop(s, copies, order, translate, rotate, scale, i + 1,
                    IF IsPointArray(s) THEN shapes \o c.val.items
                    ELSE Append(shapes, c.val),
                    tx + translate.x, ty + translate.y, r + rotate,
                    <<sxy[1] + scale.x, sxy[2] + scale.y>>)

\* vg.copy(shape, copies, order, translate, rotate, scale); the outcome
VgCopy(s, copies, order, translate, rotate, scale) ==
    CopyLoop(s, copies, order, translate, rotate, scale, 0, <<>>, 0, 0, 0, <<1, 1>>)

(***************************************************************************)
(* vg.group, vg.ungroup, vg.merge                                          *)
(***************************************************************************)
\* lodash.flatten(arguments): arrays among the arguments give their elements
Flatten(args) ==
    Flat([i \in 1..Len(args) |->
            IF IsArray(args[i]) THEN args[i].items ELSE <<args[i]>>])

\* vg.group(...)
VgGroup(args) == Return(NewGroup(Flatten(args)))

\* vg.merge(...): lines 250-254 drop missing arguments and empty arrays
VgMerge(args) ==
    Return(NewGroup(SelectSeq(Flatten(args),
        LAMBDA a : ~Falsy(a) /\ ~(IsArray(a) /\ Len(a.items) = 0))))

\* an ungroup that keeps only the Paths directly under the Group
UngroupShallow(s) ==
    IF Falsy(s) THEN <<>>
    ELSE IF IsGroup(s) THEN SelectSeq(s.shapes, LAMBDA c : IsPath(c))
    ELSE IF IsPath(s) THEN <<s>>
    ELSE <<>>

RECURSIVE UngroupRec(_)
\* lines 1024-1041: the elements of the array returned
UngroupRec(s) ==
    IF Falsy(s) THEN <<>>
    ELSE IF IsGroup(s) THEN
        Flat([i \in 1..Len(s.shapes) |->
                IF IsPath(s.shapes[i]) THEN <<s.shapes[i]>>
                ELSE IF IsGroup(s.shapes[i]) THEN UngroupRec(s.shapes[i])
                ELSE <<>>])
    ELSE IF IsPath(s) THEN <<s>>
    ELSE <<>>

\* vg.ungroup(shape)
VgUngroup(s) == Return(NewArray(UngroupRec(s)))

(***************************************************************************)
(* vg.shapeSort on arrays of points                                        *)
(***************************************************************************)
\* the sort key of lines 1000-1005; distance is compared by its square
SortKey(method, origin, o) ==
    IF method = "x" THEN o.x
    ELSE IF method = "y" THEN o.y
    ELSE (o.x - origin.x) * (o.x - origin.x) + (o.y - origin.y) * (o.y - origin.y)

\* the orders Array.prototype.sort may leave: the permutations of items with
\* the keys ascending (elements with equal keys in any order)
SortedOrders(items, method, origin) ==
    { [i \in 1..Len(items) |-> items[p[i]]] :
        p \in { q \in [1..Len(items) -> 1..Len(items)] :
                  /\ \A i, j \in 1..Len(items) : i # j => q[i] # q[j]
                  /\ \A i \in 1..(Len(items) - 1) :
                        SortKey(method, origin, items[q[i]])
                            <= SortKey(method, origin, items[q[i + 1]]) } }

\* a slice that hands back the array itself
SliceAlias(a) == a

\* shapes.slice(0): a new array of the same elements
Slice(a) == NewArray(a.items)

\* the methods with integer keys; 'angle' (an arctangent) is not passed here
SortMethods == {"x", "y", "distance"}

\* vg.shapeSort(shapes, method, origin) when sort leaves the order `sorted`
VgShapeSort(shapes, method, origin0, sorted) ==
    IF Falsy(shapes) THEN Pure(Return(Undefined))
    ELSE IF method \notin SortMethods THEN Pure(Return(shapes))
    ELSE LET newShapes == [Slice(shapes) EXCEPT !.items = sorted]
         IN  [out |-> Return(newShapes), retag |-> {},
              sorted |-> <<[ref |-> newShapes.ref, items |-> sorted]>>]

(***************************************************************************)
(* vg.bounds, with Rect.unite, Path.bounds and Group.bounds (objects/).    *)
(***************************************************************************)
\* the side of a color swatch
SwatchSize == 30

SetMin(S) == CHOOSE m \in S : \A n \in S : m <= n
SetMax(S) == CHOOSE m \in S : \A n \in S : m >= n

\* new Rect(): every omitted argument is 0
ZeroRect == NewRect(0, 0, 0, 0)

\* Rect.unite
Unite(a, b) ==
    LET x == SetMin({a.x, b.x})
        y == SetMin({a.y, b.y})
    IN  NewRect(x, y, SetMax({a.x + a.width, b.x + b.width}) - x,
                SetMax({a.y + a.height, b.y + b.height}) - y)

\* Path.bounds of a Path of MOVETO, LINETO and CLOSE commands with a vertex,
\* or of no command at all
PathBounds(p) ==
    IF p.commands = <<>> THEN ZeroRect
    ELSE LET v == {i \in 1..Len(p.commands) : p.commands[i].type \in {MOVETO, LINETO}}
             minX == SetMin({p.commands[i].x : i \in v})
             minY == SetMin({p.commands[i].y : i \in v})
         IN  NewRect(minX, minY, SetMax({p.commands[i].x : i \in v}) - minX,
                     SetMax({p.commands[i].y : i \in v}) - minY)

RECURSIVE ShapeBounds(_), GroupBoundsLoop(_, _, _)
\* Group.bounds from child i on, r the union so far (Null: none yet)
GroupBoundsLoop(shapes, i, r) ==
    IF i > Len(shapes) THEN (IF r = Null THEN ZeroRect ELSE r)
    ELSE GroupBoundsLoop(shapes, i + 1,
                         IF r = Null THEN ShapeBounds(shapes[i])
                         ELSE Unite(r, ShapeBounds(shapes[i])))
\* o.bounds() of a Path or Group
ShapeBounds(o) ==
    IF IsPath(o) THEN PathBounds(o) ELSE GroupBoundsLoop(o.shapes, 1, Null)

\* typeof o.bounds === 'function'
HasBoundsMethod(o) == IsPath(o) \/ IsGroup(o)

\* o.r !== undefined && o.g !== undefined && o.b !== undefined
IsColorLike(o) == Has(o, "r") /\ Has(o, "g") /\ Has(o, "b")

RECURSIVE VgBounds(_), BoundsLoop(_, _, _)
\* a broken fold: the bounds of the last element only
BoundsLoopLast(items, i, r) ==
    IF i > Len(items) THEN Return(IF r = Null THEN ZeroRect ELSE r)
    ELSE VgBounds(items[Len(items)])

\* the loop of lines 217-224 from index i on, r the union so far (null: none
\* yet)
BoundsLoop(items, i, r) ==
    IF i > Len(items) THEN Return(IF r = Null THEN ZeroRect ELSE r)
    ELSE LET b == VgBounds(items[i])
         IN  IF ~Returned(b) THEN b
             ELSE BoundsLoop(items, i + 1,
                             IF r = Null THEN b.val ELSE Unite(r, b.val))

VgBounds(o) ==
    IF Falsy(o) THEN Return(ZeroRect)
    ELSE IF HasBoundsMethod(o) THEN Return(ShapeBounds(o))
    ELSE IF Has(o, "x") /\ Has(o, "y") THEN
        IF Has(o, "width") /\ Has(o, "height")
        THEN Return(NewRect(o.x, o.y, o.width, o.height))
        ELSE Return(NewRect(o.x, o.y, 0, 0))
    \* line 209: vg has no member Rect, `new vg.Rect(...)` is a TypeError
    ELSE IF IsColorLike(o) THEN TypeError
    ELSE IF IsArray(o) THEN
        IF Len(o.items) > 0 /\ Falsy(o.items[1]) THEN TypeError
        ELSE IF Len(o.items) > 0 /\ IsColorLike(o.items[1])
        THEN Return(NewRect(0, 0, Len(o.items) * SwatchSize, SwatchSize))
        ELSE BoundsLoop(o.items, 1, Null)
    ELSE Return(ZeroRect)

(***************************************************************************)
(* vg.scatterPoints.  The contours of the shapes scattered on are          *)
(* rectangles with sides parallel to the axes, and the sides of the        *)
(* shape's bounds are 0 or multiples of RandModulus, so that every         *)
(* candidate position is an integer.                                       *)
(***************************************************************************)
\* the attempts made for one point
Tries == 100

\* rand(0, 1) * w for the state `seed` the draw leaves, w a multiple of RandModulus
Scaled(seed, w) == seed * (w \div RandModulus)

\* geo.pointInPolygon(contourPath.points(...), x, y) for a rectangular contour:
\* the crossing test counts the left and lower edge in, the right and upper out
InContour(contour, x, y) ==
    LET v == {i \in 1..Len(contour) : Has(contour[i], "x")}
    IN  /\ v # {}
        /\ SetMin({contour[i].x : i \in v}) <= x
        /\ x < SetMax({contour[i].x : i \in v})
        /\ SetMin({contour[i].y : i \in v}) <= y
        /\ y < SetMax({contour[i].y : i \in v})

\* one pass of the loop body, lines 673-684: a candidate position drawn and
\* tested; [hit, x, y, seed]
Attempt(paths, b, seed) ==
    LET s1 == NextSeed(seed)
        s2 == NextSeed(s1)
        x == b.x + Scaled(s1, b.width)
        y == b.y + Scaled(s2, b.height)
        inContourCount == Cardinality({j \in 1..Len(paths) : InContour(paths[j], x, y)})
    IN  [hit |-> inContourCount % 2 = 1, x |-> x, y |-> y, seed |-> s2]

RECURSIVE ScatterTry(_, _, _, _)
\* the while loop of lines 672-686 with `tries` attempts left: the attempts one
\* after the other until one hits; [hit, x, y, seed].  The attempts are taken
\* as a first and a second half, which keeps the evaluation shallow.
ScatterTry(paths, b, seed, tries) ==
    IF tries <= 0 THEN [hit |-> FALSE, x |-> 0, y |-> 0, seed |-> seed]
    ELSE IF tries = 1 THEN Attempt(paths, b, seed)
    ELSE LET first == ScatterTry(paths, b, seed, tries \div 2)
         IN  IF first.hit THEN first
             ELSE ScatterTry(paths, b, first.seed, tries - tries \div 2)

RECURSIVE ScatterLoop(_, _, _, _, _, _)
\* the for loop of lines 670-687 from index i on; the points
ScatterLoop(paths, b, amount, i, points, seed) ==
    IF i >= amount THEN points
    ELSE LET t == ScatterTry(paths, b, seed, Tries)
         IN  ScatterLoop(paths, b, amount, i + 1,
                         IF t.hit THEN Append(points, NewPoint(t.x, t.y)) ELSE points,
                         t.seed)

\* vg.scatterPoints(shape, amount, seed) with the seed argument as passed, in
\* the state e of Math.random; [out, entropy]
VgScatterPoints(s, amount, seed, e) ==
    IF Falsy(s) THEN [out |-> Return(Undefined), entropy |-> e]
    ELSE LET d == SeedOrRandom(seed, e)
         IN  [out |-> \* an array has no method bounds
                      IF ~IsPath(s) THEN TypeError
                      ELSE Return(NewArray(
                              ScatterLoop(Contours(s), PathBounds(s), amount, 0,
                                          <<>>, d.seed))),
              entropy |-> d.entropy]

(***************************************************************************)
(* vg.fit.  The shapes fitted have bounds with even sides that divide the  *)
(* target sizes, so that every ratio and every centre is an integer.       *)
(***************************************************************************)
\* Number.MAX_VALUE, the largest number: here the largest integer
MaxValue == 2147483647

\* `(bw > 0.000000000001) ? bw : 0` for a whole number
Clamp(v) == IF v > 0 THEN v ELSE 0

\* a broken scale: each axis keeps its own ratio
FitScaleNoMin(bw, bh, width, height, stretch) ==
    << IF bw > 0 THEN width \div bw ELSE 1, IF bh > 0 THEN height \div bh ELSE 1 >>

\* lines 372-384: the scale factors <<sx, sy>> for the clamped bounds sizes
FitScale(bw, bh, width, height, stretch) ==
    IF ~stretch THEN
        LET sx == IF bw > 0 THEN width \div bw ELSE MaxValue
            sy == IF bh > 0 THEN height \div bh ELSE MaxValue
        IN  <<SetMin({sx, sy}), SetMin({sx, sy})>>
    ELSE << IF bw > 0 THEN width \div bw ELSE 1,
            IF bh > 0 THEN height \div bh ELSE 1 >>

\* vg.fit(shape, position, width, height, stretch); the outcome
VgFit(s, position, width, height, stretch) ==
    IF Falsy(s) THEN Return(Undefined)
    ELSE LET rb == VgBounds(s)
         IN  IF ~Returned(rb) THEN rb
             ELSE LET bx == rb.val.x
                      by == rb.val.y
                      bw == Clamp(rb.val.width)
                      bh == Clamp(rb.val.height)
                      sc == FitScale(bw, bh, width, height, stretch)
                      t == TTranslate(
                              TScale(TTranslate(Identity, position.x, position.y),
                                     sc[1], sc[2]),
                              -(bw \div 2) - bx, -(bh \div 2) - by)
                  IN  TransformShape(t, s)

(***************************************************************************)
(* vg.pointOnPath, with Path.combine and Path.point (objects/path).  The   *)
(* Paths measured are made of MOVETO and of LINETO parallel to an axis,    *)
(* with lengths that are powers of two.  The parameter t is a double:      *)
(* [n, eps] stands for n / length + eps * e, where length is the length    *)
(* of the path and e is a positive double of at most 2^-54, half the       *)
(* distance from 1 to the double before it.  With eps = 0 the value, its   *)
(* remainder and its sum with 1 are exact in doubles, and the point asked  *)
(* for has whole coordinates.  An eps other than 0 goes with n = 0 only:   *)
(* next to any other value n / length the doubles are further apart than   *)
(* e.                                                                      *)
(***************************************************************************)
RECURSIVE Combine(_)
\* Path.combine: the commands of every Path of a shape, in order
Combine(s) ==
    IF IsPath(s) THEN s.commands
    ELSE LET kids == IF IsGroup(s) THEN s.shapes ELSE s.items
         IN  Flat([i \in 1..Len(kids) |-> Combine(kids[i])])

Abs(v) == IF v < 0 THEN -v ELSE v

\* the length of the segment that ends at command i: a MOVETO draws nothing
SegLen(cmds, i) ==
    IF i < 2 \/ cmds[i].type = MOVETO THEN 0
    ELSE Abs(cmds[i].x - cmds[i - 1].x) + Abs(cmds[i].y - cmds[i - 1].y)

RECURSIVE SumLen(_, _)
SumLen(cmds, i) == IF i > Len(cmds) THEN 0 ELSE SegLen(cmds, i) + SumLen(cmds, i + 1)
\* Path.length
PathLength(path) == SumLen(path.commands, 2)

RECURSIVE Locate(_, _, _)
\* the segment the distance d from the start of segment i falls into: the first
\* one that is long enough, or the last; [i, d]
Locate(cmds, d, i) ==
    IF i >= Len(cmds) \/ d <= SegLen(cmds, i) THEN [i |-> i, d |-> d]
    ELSE Locate(cmds, d - SegLen(cmds, i), i + 1)

\* Path.point(t) for t = n / length: the point n units along the path
PathPoint(path, n) ==
    LET cmds == path.commands
        at == Locate(cmds, n, 2)
        from == cmds[at.i - 1]
        to == cmds[at.i]
        len == SegLen(cmds, at.i)
    IN  IF len = 0 THEN [x |-> to.x, y |-> to.y]
        ELSE [x |-> from.x + ((to.x - from.x) * at.d) \div len,
              y |-> from.y + ((to.y - from.y) * at.d) \div len]

\* the double n / length
Exact(n) == [n |-> n, eps |-> 0]
\* a negative double next to zero, -e
TinyNegative == [n |-> 0, eps |-> -1]

\* t < 0
IsNegative(t) == t.n < 0 \/ (t.n = 0 /\ t.eps < 0)

\* the JavaScript remainder n % d of whole numbers: it has the sign of n
JsRem(n, d) == IF n >= 0 THEN n % d ELSE -((-n) % d)

\* t % 1 (line 900): exact in doubles, and e is below 1
Rem(t, length) == [n |-> JsRem(t.n, length), eps |-> t.eps]

\* 1 + t (line 902) for -1 < t < 0, rounded to the nearest double: those
\* next to 1 are 2^-53 apart or more, so that 1 - e is rounded to 1
OnePlus(t, length) == [n |-> length + t.n, eps |-> 0]

\* a broken wrap: a negative remainder is left as it is
WrapTruncated(t, length) == Rem(t, length)

\* lines 900-903, `t = t % 1; if (t < 0) t = 1 + t`
Wrap(t, length) ==
    LET r == Rem(t, length)
    IN  IF IsNegative(r) THEN OnePlus(r, length) ELSE r

\* vg.pointOnPath(shape, t); the outcome
VgPointOnPath(s, t) ==
    IF Falsy(s) THEN Return(Undefined)
    ELSE LET path == IF IsGroup(s) THEN NewPath(Combine(s)) ELSE s
         IN  \* an array has no method point
             IF ~IsPath(path) THEN TypeError
             ELSE LET pt == PathPoint(path, Wrap(t, PathLength(path)).n)
                  IN  Return(NewPoint(pt.x, pt.y))

(***************************************************************************)
(* The caller: one vg call at a time.                                      *)
(***************************************************************************)
Rects == {NewRect(1, 1, 2, 1), NewRect(0, 0, 1, 1)}
Scopes == {"points", "paths", "bogus-scope"}
\* the shape arguments a caller passes, a missing one included
Arguments == Shapes \cup {Undefined, Null}
\* the same with the Paths of Groups only
TreeArguments == Trees \cup ShapeArrays \cup PointArrays \cup {Undefined, Null}

\* what a caller asks the bounds of
NewColor(r, g, b) == [kind |-> "color", ref |-> 0, r |-> r, g |-> g, b |-> b]
\* an object literal {x, y, width, height}
RectLike(r) == [kind |-> "object", ref |-> 0, x |-> r.x, y |-> r.y,
                width |-> r.width, height |-> r.height]
Polylines ==
    { NewPath(<<MoveTo(0, 0), LineTo(1, 1), ClosePath>>),
      NewPath(<<MoveTo(2, 1), LineTo(3, 0)>>),
      NewPath(<<>>) }
BoundsElements ==
    PointPool \cup Polylines
        \cup {NewGroup(<<>>),
              NewGroup(<<NewPath(<<MoveTo(2, 1), LineTo(3, 0)>>),
                        NewPath(<<MoveTo(0, 0), LineTo(1, 1), ClosePath>>)>>)}
\* the corners of a 4 by 3 rectangle
Corners == <<NewPoint(0, 0), NewPoint(4, 0), NewPoint(4, 3), NewPoint(0, 3)>>
Colors == {NewColor(255, 0, 0), NewColor(0, 0, 255)}
BoundsArguments ==
    {Undefined, Null, [kind |-> "object", ref |-> 1]}
        \cup Built(BoundsElements)
        \cup Built({RectLike(r) : r \in Rects})
        \cup Built(Colors)
        \cup Built({NewArray(c) : c \in SeqsUpTo(Colors, 2) \ {<<>>}})
        \cup Built({NewArray(e) : e \in SeqsUpTo(BoundsElements, MaxPts)})
        \cup Built({NewArray(Corners),
                    NewArray(<<NewArray(<<NewPoint(2, 1)>>), NewPoint(0, 0)>>)})

NoCall == [op |-> "none"]

Init ==
    /\ pc = "idle"
    /\ call = NoCall
    /\ shape = Undefined
    /\ result = Return(Undefined)
    /\ entropy = 0

\* the state after a call: the outcome, the argument as the call left it, and
\* the state e the call left Math.random in
Finish(c, r, e) ==
    /\ pc' = "done"
    /\ call' = c
    /\ shape' = Resorted(Retagged(c.shape, r.retag), r.sorted)
    /\ result' = r.out
    /\ entropy' = e

\* the state after a call that draws nothing from Math.random
Done(c, r) == Finish(c, r, entropy)

Delete ==
    /\ pc = "idle"
    /\ \E s \in Arguments, b \in Rects \cup {Null}, scope \in Scopes,
          invert \in BOOLEAN :
            Done([op |-> "delete", shape |-> s, bounding |-> b, scope |-> scope,
                  invert |-> invert],
                 VgDelete(s, b, scope, invert))

Distances == 2..MaxDist
Strengths == {0, 1}
\* an omitted center or origin, and a given one
Centers == {Undefined, NewPoint(1, 0)}

Snap ==
    /\ pc = "idle"
    /\ \E s \in Arguments, d \in Distances, strength \in Strengths, c \in Centers :
            Done([op |-> "snap", shape |-> s, distance |-> d, strength |-> strength,
                  center |-> c],
                 Pure(VgSnap(s, d, strength, c)))

Mirror ==
    /\ pc = "idle"
    /\ \E s \in Arguments, angle \in Angles, o \in Centers, keep \in BOOLEAN :
            Done([op |-> "mirror", shape |-> s, angle |-> angle, origin |-> o,
                  keepOriginal |-> keep],
                 Pure(VgMirror(s, angle, o, keep)))

\* offsets per axis: none, and one that keeps the jitter an integer
Offsets == {[x |-> RandHalf, y |-> 0], [x |-> RandHalf, y |-> RandHalf]}
Seeds == {0, 42}

\* the seed arguments: a number passed
ExplicitSeeds == {<<n>> : n \in Seeds}
\* or none
SeedArguments == ExplicitSeeds \cup {<<>>}

\* a call may draw from Math.random while draws are left
CanDraw(seed) == seed # <<>> \/ entropy < MaxDraws

WigglePointsOn(S, seeds) ==
    /\ pc = "idle"
    /\ \E s \in S, offset \in Offsets, seed \in seeds :
            /\ CanDraw(seed)
            /\ LET r == WigglePointsCall(s, offset, seed, entropy)
               IN  Finish([op |-> "wigglePoints", shape |-> s, offset |-> offset,
                           seed |-> seed],
                          Pure(r.out), r.entropy)

WiggleContoursOn(S, seeds) ==
    /\ pc = "idle"
    /\ \E s \in S, offset \in Offsets, seed \in seeds :
            /\ CanDraw(seed)
            /\ LET r == WiggleContoursCall(s, offset, seed, entropy)
               IN  Finish([op |-> "wiggleContours", shape |-> s, offset |-> offset,
                           seed |-> seed],
                          Pure(r.out), r.entropy)

WigglePathsOn(S, seeds) ==
    /\ pc = "idle"
    /\ \E s \in S, offset \in Offsets, seed \in seeds :
            /\ CanDraw(seed)
            /\ LET r == WigglePathsCall(s, offset, seed, entropy)
               IN  Finish([op |-> "wigglePaths", shape |-> s, offset |-> offset,
                           seed |-> seed],
                          Pure(r.out), r.entropy)

\* the Paths scattered on: a square of side RandModulus, the square with its
\* left half cut out, the square twice, and a Path of no command
SquareCommands(w) ==
    <<MoveTo(0, 0), LineTo(w, 0), LineTo(w, RandModulus), LineTo(0, RandModulus),
      ClosePath>>
ScatterPaths ==
    { NewPath(SquareCommands(RandModulus)),
      NewPath(SquareCommands(RandModulus) \o SquareCommands(RandHalf)),
      NewPath(SquareCommands(RandModulus) \o SquareCommands(RandModulus)),
      NewPath(<<>>) }
ScatterArguments ==
    Built(ScatterPaths)
        \cup {a \in PointArrays : Len(a.items) = 1}
        \cup {a \in ShapeArrays : Len(a.items) = 1}
        \cup {Undefined, Null}

ScatterPointsOn(seeds) ==
    /\ pc = "idle"
    /\ \E s \in ScatterArguments, amount \in 0..MaxAmount, seed \in seeds :
            /\ CanDraw(seed)
            /\ LET r == VgScatterPoints(s, amount, seed, entropy)
               IN  Finish([op |-> "scatterPoints", shape |-> s, amount |-> amount,
                           seed |-> seed],
                          Pure(r.out), r.entropy)

\* the calls with a seed passed
WigglePoints == WigglePointsOn(Arguments, ExplicitSeeds)
WiggleContours == WiggleContoursOn(TreeArguments, ExplicitSeeds)
WigglePaths == WigglePathsOn(TreeArguments, ExplicitSeeds)
ScatterPoints == ScatterPointsOn(ExplicitSeeds)

\* the same calls with the seed passed or omitted, on a few shapes
SeededShapes ==
    {p \in Paths : Len(p.commands) <= 2}
        \cup {g \in Groups : Len(g.shapes) = 1}
        \cup {a \in PointArrays : Len(a.items) <= 1}
        \cup {Undefined}
WigglePointsAnySeed == WigglePointsOn(SeededShapes, SeedArguments)
WiggleContoursAnySeed == WiggleContoursOn(SeededShapes, SeedArguments)
WigglePathsAnySeed == WigglePathsOn(SeededShapes, SeedArguments)
ScatterPointsAnySeed == ScatterPointsOn(SeedArguments)

Positions == {NewPoint(1, 2)}
Percents == {[x |-> 100, y |-> 200]}
RightAngles == {90, 180}
Skews == {[x |-> 0, y |-> 45]}

Translate ==
    /\ pc = "idle"
    /\ \E s \in TreeArguments, position \in Positions :
            Done([op |-> "translate", shape |-> s, position |-> position],
                 Pure(VgTranslate(s, position)))

Scale ==
    /\ pc = "idle"
    /\ \E s \in TreeArguments, scale \in Percents, o \in Centers :
            Done([op |-> "scale", shape |-> s, scale |-> scale, origin |-> o],
                 Pure(VgScale(s, scale, o)))

Rotate ==
    /\ pc = "idle"
    /\ \E s \in TreeArguments, angle \in RightAngles, o \in Centers :
            Done([op |-> "rotate", shape |-> s, angle |-> angle, origin |-> o],
                 Pure(VgRotate(s, angle, o)))

Skew ==
    /\ pc = "idle"
    /\ \E s \in TreeArguments, skew \in Skews, o \in Centers :
            Done([op |-> "skew", shape |-> s, skew |-> skew, origin |-> o],
                 Pure(VgSkew(s, skew, o)))

Orders == {<<"t", "r">>, <<"r", "s", "t">>}

Copy ==
    /\ pc = "idle"
    /\ \E s \in TreeArguments, copies \in 0..MaxCopies, order \in Orders,
          rotate \in {90} :
            Done([op |-> "copy", shape |-> s, copies |-> copies, order |-> order,
                  translate |-> NewPoint(1, 2), rotate |-> rotate,
                  scale |-> NewPoint(1, 0)],
                 Pure(VgCopy(s, copies, order, NewPoint(1, 2), rotate, NewPoint(1, 0))))

\* group(a, b, ...) with the elements of an array as arguments, or group(array)
Group ==
    /\ pc = "idle"
    /\ \E a \in ShapeArrays, spread \in BOOLEAN :
            Done([op |-> "group", shape |-> a, spread |-> spread],
                 Pure(VgGroup(IF spread THEN a.items ELSE <<a>>)))

Merge ==
    /\ pc = "idle"
    /\ \E a \in ShapeArrays, spread \in BOOLEAN :
            Done([op |-> "merge", shape |-> a, spread |-> spread],
                 Pure(VgMerge(IF spread THEN a.items \o <<Undefined>> ELSE <<a>>)))

Ungroup ==
    /\ pc = "idle"
    /\ \E s \in TreeArguments :
            Done([op |-> "ungroup", shape |-> s], Pure(VgUngroup(s)))

ShapeSort ==
    /\ pc = "idle"
    /\ \E a \in PointArrays \cup {Undefined, Null},
          method \in SortMethods \cup {"bogus-method"}, o \in Centers :
        \E sorted \in (IF Falsy(a) THEN {<<>>}
                        ELSE SortedOrders(a.items, method,
                                IF Falsy(o) THEN NewPoint(0, 0) ELSE o)) :
            Done([op |-> "shapeSort", shape |-> a, method |-> method, origin |-> o],
                 VgShapeSort(a, method, o, sorted))

Bounds ==
    /\ pc = "idle"
    /\ \E o \in BoundsArguments :
            Done([op |-> "bounds", shape |-> o], Pure(VgBounds(o)))

\* the shapes fitted: a diagonal, a horizontal and a vertical line, a single
\* vertex at the origin, a Group and a point array
FitShapes ==
    { NewPath(<<MoveTo(0, 0), LineTo(2, 4)>>),
      NewPath(<<MoveTo(2, 2), LineTo(4, 2)>>),
      NewPath(<<MoveTo(1, 0), LineTo(1, 2), ClosePath>>),
      NewPath(<<MoveTo(0, 0)>>),
      NewGroup(<<NewPath(<<MoveTo(0, 0), LineTo(2, 4)>>),
                NewPath(<<MoveTo(2, 2), LineTo(4, 2)>>)>>),
      NewArray(<<NewPoint(0, 0), NewPoint(2, 2)>>) }
FitArguments == Built(FitShapes) \cup {Undefined, Null}
FitSizes == {4, 8}

Fit ==
    /\ pc = "idle"
    /\ \E s \in FitArguments, position \in Positions, width \in FitSizes,
          height \in FitSizes, stretch \in BOOLEAN :
            Done([op |-> "fit", shape |-> s, position |-> position, width |-> width,
                  height |-> height, stretch |-> stretch],
                 Pure(VgFit(s, position, width, height, stretch)))

\* the shapes measured: an angle of length 8, a line of length 4, a Group of
\* two lines, and an array
MeasuredShapes ==
    { NewPath(<<MoveTo(0, 0), LineTo(4, 0), LineTo(4, 4)>>),
      NewPath(<<MoveTo(0, 0), LineTo(4, 0)>>),
      NewGroup(<<NewPath(<<MoveTo(0, 0), LineTo(4, 0)>>),
                NewGroup(<<NewPath(<<MoveTo(0, 4), LineTo(4, 4)>>)>>)>>),
      NewArray(<<NewPoint(0, 0), NewPoint(4, 0)>>) }
MeasuredArguments == Built(MeasuredShapes) \cup {Undefined, Null}

\* the parameters asked for: those of the grid, and one negative double too
\* small to tell 1 + t from 1
Parameters == {Exact(n) : n \in (-MaxT)..MaxT} \cup {TinyNegative}

PointOnPath ==
    /\ pc = "idle"
    /\ \E s \in MeasuredArguments, t \in Parameters :
            Done([op |-> "pointOnPath", shape |-> s, t |-> t],
                 Pure(VgPointOnPath(s, t)))

\* the caller takes the result and is ready for the next call
Consume ==
    /\ pc = "done"
    /\ pc' = "idle"
    /\ call' = NoCall
    /\ shape' = Undefined
    /\ result' = Return(Undefined)
    /\ entropy' = entropy

Next ==
    \/ Delete
    \/ Snap
    \/ Mirror
    \/ WigglePoints
    \/ WiggleContours
    \/ WigglePaths
    \/ Translate
    \/ Scale
    \/ Rotate
    \/ Skew
    \/ Copy
    \/ Group
    \/ Merge
    \/ Ungroup
    \/ ShapeSort
    \/ Bounds
    \/ ScatterPoints
    \/ Fit
    \/ PointOnPath
    \/ Consume

Spec == Init /\ [][Next]_vars

\* the caller of the seeded operations, who may leave the seed out
NextSeeded ==
    \/ WigglePointsAnySeed
    \/ WiggleContoursAnySeed
    \/ WigglePathsAnySeed
    \/ ScatterPointsAnySeed
    \/ Consume

SpecSeeded == Init /\ [][NextSeeded]_vars

(***************************************************************************)
(* Notions the properties are stated in.                                   *)
(***************************************************************************)
\* a call of op has come back
After(op) == pc = "done" /\ call.op = op

ValidTags == {MOVETO, LINETO, QUADTO, CURVETO, CLOSE}

\* the vertices of a Path or point array, in order, as <<x, y>>
Vertices(s) ==
    LET q == IF IsPath(s) THEN s.commands ELSE s.items
        v == SelectSeq(q, LAMBDA o : Has(o, "x"))
    IN  [i \in 1..Len(v) |-> <<v[i].x, v[i].y>>]

\* a Path, or an array of points only
IsPathOrPoints(s) ==
    \/ IsPath(s)
    \/ IsArray(s) /\ \A i \in 1..Len(s.items) : IsPoint(s.items[i])

\* the children of a Group or array
Children(s) ==
    IF IsGroup(s) THEN s.shapes ELSE IF IsArray(s) THEN s.items ELSE <<>>

RECURSIVE PathsOf(_)
\* the Path objects at the leaves of a shape
PathsOf(s) ==
    IF ~Has(s, "kind") THEN {}
    ELSE IF IsPath(s) THEN {s}
    ELSE UNION {PathsOf(Children(s)[i]) : i \in 1..Len(Children(s))}

RECURSIVE Leaves(_)
\* the Path objects at the leaves of a shape, depth first, left to right
Leaves(s) ==
    IF ~Has(s, "kind") THEN <<>>
    ELSE IF IsPath(s) THEN <<s>>
    ELSE Flat([i \in 1..Len(Children(s)) |-> Leaves(Children(s)[i])])

RECURSIVE Descendants(_)
\* the shape objects below s, at any depth
Descendants(s) ==
    IF ~Has(s, "kind") THEN {}
    ELSE UNION {{Children(s)[i]} \cup Descendants(Children(s)[i])
                    : i \in 1..Len(Children(s))}

\* the refs of a sequence of objects ascend: with refs given depth first, the
\* objects are in depth-first left-to-right order and none comes twice
Ascending(q) == \A i, j \in 1..Len(q) : i < j => q[i].ref < q[j].ref

\* some vertex of Path p lies inside r (boundary included)
TouchedBy(p, r) == \E v \in {Vertices(p)[i] : i \in 1..Len(Vertices(p))} :
                        Contains(r, v[1], v[2])

(***************************************************************************)
(* C1: every operation that takes a primary shape argument returns         *)
(* undefined, and throws nothing, when that argument is undefined.         *)
(* (Stated as claimed; translate, scale, rotate, skew, the three wiggles   *)
(* and delete read a property of the missing shape and throw a TypeError.) *)
(***************************************************************************)
ShapeOps ==
    {"translate", "scale", "rotate", "skew", "mirror", "wigglePoints",
     "wiggleContours", "wigglePaths", "snap", "delete"}

C1_UndefinedShapeReturnsUndefined ==
    ( /\ pc = "done"
      /\ call.op \in ShapeOps
      /\ call.shape = Undefined
      /\ call.op = "delete" =>
            call.scope \in {"points", "paths"} /\ call.bounding # Null )
    => result = Return(Undefined)

(***************************************************************************)
(* C2: delete with a scope other than 'points' or 'paths' throws 'Invalid  *)
(* scope' and returns nothing, for any shape, rect and invert flag.        *)
(* (Stated as claimed.  vg.delete returns null for a null shape or a null  *)
(* rect before it looks at the scope, so an unknown scope passes silently  *)
(* there.)                                                                 *)
(***************************************************************************)
C2_UnknownScopeAlwaysThrows ==
    (After("delete") /\ call.scope \notin {"points", "paths"})
    => result = Throw("Invalid scope.")

(***************************************************************************)
(* C3: mirror, snap and wigglePoints each throw when the Path they         *)
(* traverse holds a command whose tag is none of MOVETO, LINETO, QUADTO,   *)
(* CURVETO, CLOSE; none returns a Path.                                    *)
(* (Stated as claimed; wigglePoints skips such a command and returns.)     *)
(***************************************************************************)
HasUnknownTag(p) == \E i \in 1..Len(p.commands) : p.commands[i].type \notin ValidTags

C3_UnknownTagThrows ==
    ( /\ pc = "done"
      /\ call.op \in {"mirror", "snap", "wigglePoints"}
      /\ IsPath(call.shape)
      /\ HasUnknownTag(call.shape) )
    => ~Returned(result)

(***************************************************************************)
(* C4: ungroup of a Group tree returns exactly the Path leaves of the      *)
(* tree, each once, in depth-first left-to-right order, and no Group.      *)
(***************************************************************************)
C4_UngroupFlattens ==
    (After("ungroup") /\ IsGroup(call.shape))
    => /\ Returned(result)
       /\ IsArray(result.val)
       /\ \A i \in 1..Len(result.val.items) : IsPath(result.val.items[i])
       /\ {result.val.items[i] : i \in 1..Len(result.val.items)} = PathsOf(call.shape)
       /\ Ascending(result.val.items)

\* ungroup(group(A, group(B, C))) gave three Paths
C4_Witness ==
    /\ After("ungroup")
    /\ IsGroup(call.shape)
    /\ Len(call.shape.shapes) = 2
    /\ IsPath(call.shape.shapes[1])
    /\ IsGroup(call.shape.shapes[2])
    /\ Len(call.shape.shapes[2].shapes) = 2
    /\ \A i \in 1..2 : IsPath(call.shape.shapes[2].shapes[i])
    /\ Len(result.val.items) = 3

(***************************************************************************)
(* C5: on a Path or point array S, delete(S, R, 'points', false) keeps     *)
(* exactly the vertices for which R.contains is false and                  *)
(* delete(S, R, 'points', true) exactly those for which it is true, each   *)
(* in original order; the two calls on the same S thus split its vertices, *)
(* boundary vertices included, each vertex kept by exactly one call.       *)
(***************************************************************************)
C5_PointsPartition ==
    ( /\ After("delete")
      /\ call.scope = "points"
      /\ call.bounding # Null
      /\ ~Falsy(call.shape)
      /\ IsPathOrPoints(call.shape) )
    => /\ Returned(result)
       /\ Vertices(result.val) =
            SelectSeq(Vertices(call.shape),
                LAMBDA v : Contains(call.bounding, v[1], v[2]) = call.invert)

\* the inverted call kept a vertex on the rect's boundary and dropped one outside
C5_Witness ==
    /\ After("delete")
    /\ call.scope = "points"
    /\ call.bounding # Null
    /\ call.invert
    /\ ~Falsy(call.shape)
    /\ IsPath(call.shape)
    /\ Returned(result)
    /\ Len(Vertices(result.val)) > 0
    /\ Len(Vertices(result.val)) < Len(Vertices(call.shape))
    /\ \E i \in 1..Len(Vertices(result.val)) :
            Vertices(result.val)[i][1] = call.bounding.x + call.bounding.width

(***************************************************************************)
(* C6: for a Path whose contours each start with MOVETO, the Path that     *)
(* deletePoints returns is empty or starts with a MOVETO, and the command  *)
(* after every CLOSE of the result is a MOVETO.                            *)
(***************************************************************************)
\* the first command, and the command after every CLOSE, is a MOVETO
ContoursStartWithMoveTo(cmds) ==
    /\ cmds # <<>> => cmds[1].type = MOVETO
    /\ \A i \in 1..(Len(cmds) - 1) : cmds[i].type = CLOSE => cmds[i + 1].type = MOVETO

C7_WholePathsKept ==
    ( /\ After("delete")
      /\ call.scope = "paths"
      /\ call.bounding # Null
      /\ ~Falsy(call.shape)
      /\ IsGroup(call.shape) \/ IsArray(call.shape) )
    => /\ Returned(result)
       /\ result.val.kind = call.shape.kind
       /\ Leaves(result.val) =
            SelectSeq(Leaves(call.shape),
                LAMBDA p : TouchedBy(p, call.bounding) = call.invert)

\* of the Paths of a nested Group one was kept and one removed
C7_Witness ==
    /\ After("delete")
    /\ call.scope = "paths"
    /\ call.bounding # Null
    /\ ~Falsy(call.shape)
    /\ IsGroup(call.shape)
    /\ \E i \in 1..Len(call.shape.shapes) : IsGroup(call.shape.shapes[i])
    /\ Returned(result)
    /\ Len(Leaves(result.val)) > 0
    /\ Len(Leaves(result.val)) < Len(Leaves(call.shape))

(***************************************************************************)
(* C8: after a call of delete, snap, mirror, wigglePoints, wiggleContours, *)
(* wigglePaths, copy, shapeSort or merge the input shape (its commands,    *)
(* its children, the order of an input array) is what it was before.       *)
(***************************************************************************)
NonMutatingOps ==
    {"delete", "snap", "mirror", "wigglePoints", "wiggleContours", "wigglePaths",
     "copy", "shapeSort", "merge"}

C8_InputUnchanged ==
    (pc = "done" /\ call.op \in NonMutatingOps) => shape = call.shape

\* deletePoints dropped a MOVETO and retagged the LINETO that followed it
C8_Witness ==
    /\ After("delete")
    /\ call.scope = "points"
    /\ call.bounding # Null
    /\ ~Falsy(call.shape)
    /\ IsPath(call.shape)
    /\ Len(call.shape.commands) = 2
    /\ call.shape.commands[1].type = MOVETO
    /\ call.shape.commands[2].type = LINETO
    /\ Returned(result)
    /\ Len(result.val.commands) = 1
    /\ result.val.commands[1].type = MOVETO
    /\ result.val.commands[1].x = call.shape.commands[2].x
    /\ shape.commands[2].type = LINETO

(***************************************************************************)
(* C9: an operation applied to a Group returns a new Group none of whose   *)
(* children, at any depth, is the same object as a child of the input      *)
(* Group or as the input Group itself; for delete with scope 'paths',      *)
(* wigglePaths, mirror (also with keepOriginal), snap, deletePoints and    *)
(* wigglePoints.                                                           *)
(* (Stated as claimed; deletePaths puts the kept Path objects themselves   *)
(* into its result, and mirror with keepOriginal the input itself.)        *)
(***************************************************************************)
GroupOps == {"delete", "wigglePaths", "mirror", "snap", "wigglePoints"}

C9_NewChildren ==
    ( /\ pc = "done"
      /\ call.op \in GroupOps
      /\ ~Falsy(call.shape)
      /\ IsGroup(call.shape)
      /\ Returned(result)
      /\ ~Falsy(result.val) )
    => /\ IsGroup(result.val)
       /\ result.val.ref = 0
       /\ \A c \in Descendants(result.val) : c.ref \notin Refs(call.shape)

(***************************************************************************)
(* C10: snap with strength 1 is idempotent: snapping the result of         *)
(* snap(S, d, 1, c) again with the same d and c returns a shape of the     *)
(* same structure and coordinates.                                         *)
(***************************************************************************)
C10_SnapIdempotent ==
    (After("snap") /\ call.strength = 1 /\ Returned(result))
    => VgSnap(result.val, call.distance, 1, call.center) = result

\* a full snap about a given center moved a vertex of a Group's Path
C10_Witness ==
    /\ After("snap")
    /\ call.strength = 1
    /\ call.center # Undefined
    /\ ~Falsy(call.shape)
    /\ IsGroup(call.shape)
    /\ Returned(result)
    /\ Leaves(result.val) # <<>>
    /\ Vertices(Leaves(result.val)[1]) # Vertices(Leaves(call.shape)[1])

(***************************************************************************)
(* C17: on a Path built only from MOVETO, LINETO, QUADTO, CURVETO and      *)
(* CLOSE, each of snap, mirror and wigglePoints returns, without error, a  *)
(* Path with the same number of commands and the same sequence of tags; a  *)
(* QUADTO is neither rejected nor dropped.                                 *)
(* (Stated as claimed; snap and mirror throw on a QUADTO and wigglePoints  *)
(* drops it.)                                                              *)
(***************************************************************************)
Tags(p) == [i \in 1..Len(p.commands) |-> p.commands[i].type]

C17_ValidTagsPreserved ==
    ( /\ pc = "done"
      /\ call.op \in {"snap", "mirror", "wigglePoints"}
      /\ call.op = "mirror" => ~call.keepOriginal
      /\ IsPath(call.shape)
      /\ ~HasUnknownTag(call.shape) )
    => /\ Returned(result)
       /\ IsPath(result.val)
       /\ Tags(result.val) = Tags(call.shape)

(***************************************************************************)
(* C18: in the Path deletePoints returns every command that is no CLOSE    *)
(* has an endpoint (x, y), and every CLOSE of the input is a CLOSE of the  *)
(* output, also when all vertices of a contour are removed and only its    *)
(* CLOSE is left.                                                          *)
(* (Stated as claimed, for input Paths whose contours start with MOVETO;   *)
(* a CLOSE that is the first command kept of its contour is retagged       *)
(* MOVETO and has no coordinates.)                                         *)
(***************************************************************************)
CloseCount(cmds) == Cardinality({i \in 1..Len(cmds) : cmds[i].type = CLOSE})

C18_EndpointsDefined ==
    ( /\ After("delete")
      /\ call.scope = "points"
      /\ call.bounding # Null
      /\ ~Falsy(call.shape)
      /\ IsPath(call.shape)
      /\ ContoursStartWithMoveTo(call.shape.commands)
      /\ Returned(result) )
    => /\ \A i \in 1..Len(result.val.commands) :
            result.val.commands[i].type # CLOSE =>
                Has(result.val.commands[i], "x") /\ Has(result.val.commands[i], "y")
       /\ CloseCount(result.val.commands) = CloseCount(call.shape.commands)

(***************************************************************************)
(* C19: bounds is total: for a missing value, an object with a bounds      *)
(* method, a point, a rect-like object, a color, an array of colors, an    *)
(* array of shapes or points and any other object it returns a Rect and    *)
(* never throws; a single color gives the 30 by 30 rect at the origin.     *)
(* (Stated as claimed; a color makes bounds throw a TypeError.)            *)
(***************************************************************************)
IsRect(v) == DOMAIN v = {"x", "y", "width", "height"}

C19_BoundsTotal ==
    After("bounds") =>
        /\ Returned(result)
        /\ IsRect(result.val)
        /\ call.shape \in Built(Colors) =>
                result.val = NewRect(0, 0, SwatchSize, SwatchSize)

(***************************************************************************)
(* C15: the bounds of a non-empty array of points or shapes is the         *)
(* smallest rectangle that encloses the bounds of every element (a point   *)
(* counting as a zero-size rect at its position): every element's bounds   *)
(* lies inside it and each of its four edges is reached by some element's  *)
(* bounds; the bounds of an empty array or of a missing input is the zero  *)
(* rect at the origin.                                                     *)
(***************************************************************************)
Inside(a, b) ==
    /\ b.x <= a.x
    /\ b.y <= a.y
    /\ a.x + a.width <= b.x + b.width
    /\ a.y + a.height <= b.y + b.height

RECURSIVE PointsOrShapes(_)
\* a point, a Path, a Group, or an array of such
PointsOrShapes(o) ==
    \/ IsPoint(o)
    \/ IsPath(o)
    \/ IsGroup(o)
    \/ IsArray(o) /\ \A i \in 1..Len(o.items) : PointsOrShapes(o.items[i])

C15_BoundsIsUnion ==
    After("bounds") =>
        /\ (Falsy(call.shape) \/ (IsArray(call.shape) /\ call.shape.items = <<>>))
            => result = Return(NewRect(0, 0, 0, 0))
        /\ (IsArray(call.shape) /\ call.shape.items # <<>> /\ PointsOrShapes(call.shape))
            => /\ Returned(result)
               /\ LET items == call.shape.items
                      b == [i \in 1..Len(items) |-> VgBounds(items[i]).val]
                      r == result.val
                  IN  /\ \A i \in 1..Len(items) : Inside(b[i], r)
                      /\ \E i \in 1..Len(items) : b[i].x = r.x
                      /\ \E i \in 1..Len(items) : b[i].y = r.y
                      /\ \E i \in 1..Len(items) : b[i].x + b[i].width = r.x + r.width
                      /\ \E i \in 1..Len(items) : b[i].y + b[i].height = r.y + r.height

\* the four corners (0,0), (4,0), (4,3), (0,3) gave Rect(0, 0, 4, 3)
C15_Witness ==
    /\ After("bounds")
    /\ IsArray(call.shape)
    /\ Vertices(call.shape) = <<<<0, 0>>, <<4, 0>>, <<4, 3>>, <<0, 3>>>>
    /\ result = Return(NewRect(0, 0, 4, 3))

(***************************************************************************)
(* C13: copy returns `copies` duplicates in index order; duplicate i       *)
(* (i = 0 .. copies-1) is the input transformed by the transform built     *)
(* from identity by applying, in the sequence of `order`,                  *)
(* translate(i*translate.x, i*translate.y) for 't', rotate(i*rotate) for   *)
(* 'r' and scale(1 + i*scale.x, 1 + i*scale.y) for 's'; duplicate 0 has    *)
(* the coordinates of the input, and no duplicate's transform is carried   *)
(* into the next.  The duplicates of a point array are concatenated.       *)
(***************************************************************************)
RECURSIVE Unref(_)
\* a shape or command without the identities of its objects
Unref(s) ==
    LET u == IF Has(s, "ref") THEN [s EXCEPT !.ref = 0] ELSE s
    IN  IF ~Has(s, "kind") THEN u
        ELSE IF s.kind = "path"
        THEN [u EXCEPT !.commands = [i \in 1..Len(s.commands) |-> Unref(s.commands[i])]]
        ELSE IF s.kind = "group"
        THEN [u EXCEPT !.shapes = [i \in 1..Len(s.shapes) |-> Unref(s.shapes[i])]]
        ELSE IF s.kind = "array"
        THEN [u EXCEPT !.items = [i \in 1..Len(s.items) |-> Unref(s.items[i])]]
        ELSE u

RECURSIVE DuplicateTransform(_, _, _, _, _)
\* the transform of duplicate i: the operations of order[j..] applied to t
DuplicateTransform(t, order, j, i, c) ==
    IF j > Len(order) THEN t
    ELSE DuplicateTransform(
            CASE order[j] = "t" -> TTranslate(t, i * c.translate.x, i * c.translate.y)
              [] order[j] = "r" -> TRotate(t, i * c.rotate)
              [] order[j] = "s" -> TScale(t, 1 + i * c.scale.x, 1 + i * c.scale.y)
              [] OTHER -> t,
            order, j + 1, i, c)

\* duplicate i of the call c, by the claim
Duplicate(c, i) ==
    Unref(TransformShape(DuplicateTransform(Identity, c.order, 1, i, c), c.shape).val)

C13_CopyDuplicates ==
    ( /\ After("copy")
      /\ ~Falsy(call.shape)
      /\ Returned(TransformShape(Identity, call.shape)) )
    => /\ Returned(result)
       /\ IsArray(result.val)
       /\ Unref(result.val).items =
            IF IsPointArray(call.shape)
            THEN Flat([i \in 1..call.copies |-> Duplicate(call, i - 1).items])
            ELSE [i \in 1..call.copies |-> Duplicate(call, i - 1)]
       /\ call.copies > 0 =>
            IF IsPointArray(call.shape)
            THEN SubSeq(Unref(result.val).items, 1, Len(call.shape.items))
                    = Unref(call.shape).items
            ELSE Unref(result.val.items[1]) = Unref(call.shape)

\* the transform duplicate 2 would get from a Transform carried over from
\* duplicate 1
Compounded(c, i) ==
    Unref(TransformShape(
            ReusedTransform(c.order, i, c.translate, c.rotate, c.scale),
            c.shape).val)

\* three duplicates of a Group were made under an order of three operations:
\* the first is the input, the third is moved, turned and scaled by twice
\* the deltas, and that is neither the second nor what a carried-over
\* Transform gives
C13_Witness ==
    /\ After("copy")
    /\ call.copies = 3
    /\ call.order = <<"r", "s", "t">>
    /\ IsGroup(call.shape)
    /\ Returned(result)
    /\ Len(result.val.items) = 3
    /\ Unref(result.val.items[1]) = Unref(call.shape)
    /\ Unref(result.val.items[2]) = Duplicate(call, 1)
    /\ Unref(result.val.items[3]) = Duplicate(call, 2)
    /\ Unref(result.val.items[3]) # Unref(result.val.items[2])
    /\ Unref(result.val.items[3]) # Compounded(call, 2)
    /\ Unref(result.val.items[2]) = Compounded(call, 1)

(***************************************************************************)
(* C11: for every shape, amount >= 0 and seed, scatterPoints comes back    *)
(* with an array of at most `amount` points: each requested point is       *)
(* tried at most 100 times and gives one result point, or none, without    *)
(* error, when every try misses.                                           *)
(* (Stated as claimed; on an array, which is a shape, scatterPoints        *)
(* throws a TypeError.)                                                    *)
(***************************************************************************)
C11_ScatterAtMostAmount ==
    (After("scatterPoints") /\ ~Falsy(call.shape))
    => /\ Returned(result)
       /\ IsArray(result.val)
       /\ Len(result.val.items) <= call.amount
       /\ \A i \in 1..Len(result.val.items) : IsPoint(result.val.items[i])

(***************************************************************************)
(* C12: a call of wigglePoints, wiggleContours, wigglePaths or             *)
(* scatterPoints that is passed a seed leaves the state of Math.random as  *)
(* it was and has the outcome its arguments alone determine: the same      *)
(* outcome in every state Math.random can be in, so that two calls with    *)
(* equal arguments and the same seed return equal results.                 *)
(***************************************************************************)
SeededOps == {"wigglePoints", "wiggleContours", "wigglePaths", "scatterPoints"}

\* the outcome of the seeded call c made in the state e of Math.random
SeededOutcome(c, e) ==
    CASE c.op = "wigglePoints" -> WigglePointsCall(c.shape, c.offset, c.seed, e).out
      [] c.op = "wiggleContours" -> WiggleContoursCall(c.shape, c.offset, c.seed, e).out
      [] c.op = "wigglePaths" -> WigglePathsCall(c.shape, c.offset, c.seed, e).out
      [] c.op = "scatterPoints" -> VgScatterPoints(c.shape, c.amount, c.seed, e).out

C12_SeededDeterministic ==
    [][ (pc' = "done" /\ call'.op \in SeededOps /\ call'.seed # <<>>)
        => /\ entropy' = entropy
           /\ \A e \in 0..MaxDraws : result' = SeededOutcome(call', e) ]_vars

\* after draws from Math.random by calls without a seed, a call with a seed
\* moved the points of its shape
C12_Witness ==
    /\ pc = "done"
    /\ call.op \in SeededOps
    /\ call.seed # <<>>
    /\ entropy > 0
    /\ ~Falsy(call.shape)
    /\ Returned(result)
    /\ result.val # Undefined
    /\ Vertices(call.shape) # <<>>
    /\ Unref(result.val) # Unref(call.shape)

(***************************************************************************)
(* C16: fit with stretch false applies one scale factor to both axes, the  *)
(* least of width/boundsWidth and height/boundsHeight over the axes whose  *)
(* bounds size is greater than zero; with stretch true each axis has its   *)
(* own ratio and an axis of bounds size zero has scale 1; in neither mode  *)
(* is a ratio with a zero bounds size formed.  The shape returned is the   *)
(* input moved by minus its bounds' centre, scaled by these factors and    *)
(* moved to the position.                                                  *)
(***************************************************************************)
\* size / dim, where it is a whole number
Ratio(size, dim) == CHOOSE k \in 0..size : k * dim = size

\* shape s with bounds b, centred, scaled by sx and sy and moved to position
FitWith(s, b, position, sx, sy) ==
    TransformShape(
        TTranslate(TScale(TTranslate(Identity, position.x, position.y), sx, sy),
                   -(b.width \div 2) - b.x, -(b.height \div 2) - b.y),
        s)

C16_FitScale ==
    (After("fit") /\ ~Falsy(call.shape))
    => LET b == VgBounds(call.shape).val
           ratios == (IF b.width > 0 THEN {Ratio(call.width, b.width)} ELSE {})
                        \cup (IF b.height > 0 THEN {Ratio(call.height, b.height)} ELSE {})
           least == IF ratios = {} THEN MaxValue ELSE SetMin(ratios)
       IN  IF ~call.stretch
           THEN result = FitWith(call.shape, b, call.position, least, least)
           ELSE result = FitWith(call.shape, b, call.position,
                                 IF b.width > 0 THEN Ratio(call.width, b.width) ELSE 1,
                                 IF b.height > 0 THEN Ratio(call.height, b.height) ELSE 1)

\* a shape 2 wide and 4 high was fitted into a square of side 8 without
\* stretch: both axes were scaled by 2, the lesser ratio
C16_Witness ==
    /\ After("fit")
    /\ ~call.stretch
    /\ ~Falsy(call.shape)
    /\ IsPath(call.shape)
    /\ VgBounds(call.shape).val = NewRect(0, 0, 2, 4)
    /\ call.width = 8
    /\ call.height = 8
    /\ Returned(result)
    /\ Vertices(result.val) = <<<<-1, -2>>, <<3, 6>>>>

(***************************************************************************)
(* C14: for every t, pointOnPath evaluates the path at a parameter t'      *)
(* with 0 <= t' < 1 and t' congruent to t modulo 1: a negative t wraps     *)
(* upward (-0.25 gives 0.75) and every whole t, 1 included, gives 0; for   *)
(* a Group the path is the one Path of all the Group's commands.           *)
(* (Stated as claimed: C14_PointOnPathWraps.  As amended,                  *)
(* C14_PointOnPathWrapsRounded: 0 <= t' <= 1, and t' = 1, the end of the   *)
(* path, for a negative t so small that 1 + t is rounded to 1.)            *)
(***************************************************************************)
\* the one Path a Path or Group is measured as
MeasuredPath(s) == IF IsGroup(s) THEN NewPath(Combine(s)) ELSE s

\* the doubles t' with 0 <= t' < 1 that a parameter of the model wraps to
UnitInterval(length) == {Exact(k) : k \in 0..(length - 1)}

\* a - b is a whole number
Congruent(a, b, length) == a.eps = b.eps /\ (a.n - b.n) % length = 0

\* the result is the point of the path at the parameter t'
EvaluatedAt(path, tp, t) ==
    /\ Wrap(t, PathLength(path)) = tp
    /\ result = Return(NewPoint(PathPoint(path, tp.n).x, PathPoint(path, tp.n).y))

Measured == After("pointOnPath") /\ ~Falsy(call.shape)
                /\ (IsPath(call.shape) \/ IsGroup(call.shape))

C14_PointOnPathWraps ==
    Measured
    => LET path == MeasuredPath(call.shape)
       IN  \E tp \in UnitInterval(PathLength(path)) :
                /\ Congruent(tp, call.t, PathLength(path))
                /\ EvaluatedAt(path, tp, call.t)

\* t is negative and 1 + t is the double 1
RoundsToOne(t) == t.n = 0 /\ t.eps < 0

\* C14 as amended: pointOnPath evaluates the path at t' with 0 <= t' <= 1;
\* t' < 1 and t' is congruent to t modulo 1, unless t is negative and so
\* small that 1 + t is rounded to 1: then t' = 1, the end of the path
C14_PointOnPathWrapsRounded ==
    Measured
    => LET path == MeasuredPath(call.shape)
           length == PathLength(path)
       IN  IF RoundsToOne(call.t)
           THEN EvaluatedAt(path, Exact(length), call.t)
           ELSE \E tp \in UnitInterval(length) :
                    /\ Congruent(tp, call.t, length)
                    /\ EvaluatedAt(path, tp, call.t)

\* t = -e on a Group of two lines of length 4 each: 1 + t is 1, and the point
\* is the end of the second line
C14_Witness ==
    /\ Measured
    /\ IsGroup(call.shape)
    /\ PathLength(MeasuredPath(call.shape)) = 8
    /\ call.t = TinyNegative
    /\ Wrap(call.t, 8) = Exact(8)
    /\ result = Return(NewPoint(4, 4))

====
